---- MODULE Spec2Model ----
(***************************************************************************)
(* Model of godot-mcp: the engine-side operations script                   *)
(* (scripts/godot_operations.gd) run once per operation in a headless      *)
(* engine process, and the project files it loads and saves.               *)
(*                                                                         *)
(* Strings that the script builds by concatenation are modelled as tuples  *)
(* of their parts (<<"Unknown operation: ", name>>); node paths are tuples *)
(* of path segments, so "A/B" is <<"A","B">>, "." is <<".">> and the empty *)
(* string is <<>>.  File paths are atomic strings, "" being the empty one. *)
(***************************************************************************)
EXTENDS Integers, Sequences, FiniteSets, TLC

\* ------------------------------------------------------------------ bounds
\* Largest number of nodes a scene may hold before add_node / create_animation
\* requests stop being issued.
MaxNodes == 2

\* Largest number of animation tracks a scene may hold before
\* add_animation_track requests stop being issued.
MaxTracks == 1

\* ---------------------------------------------------------------- universe
Procs == {1}

\* The engine processes that can be alive at once: the host starts one per
\* tool call and awaits none before starting the next.
AllProcs == {1, 2}

NoFile == [file |-> "absent"]
NoTree == [tree |-> "null"]
NoResult == [result |-> "none"]
NoArgs == [argc |-> 0]

ScenePath == "res://a.tscn"
OtherScenePath == "res://b.tscn"
ScriptPath == "res://s.gd"
ResourcePath == "res://r.tres"

Dot == <<".">>

\* ------------------------------------------------------- dictionary access
\* Dictionary.get(key, default)
DictGet(d, key, default) == IF key \in DOMAIN d THEN d[key] ELSE default

\* ------------------------------------------------------------- JSON values
Null == [k |-> "null"]
Num(n) == [k |-> "num", n |-> n]
Dict(d) == [k |-> "dict", d |-> d]

\* The converter with a missing alpha channel taken as 0.
ConvertTransparent(value) ==
    IF value.k = "dict" /\ "_type" \in DOMAIN value.d
    THEN CASE value.d["_type"] = "Vector2" ->
                [k |-> "Vector2", x |-> DictGet(value.d, "x", 0),
                                  y |-> DictGet(value.d, "y", 0)]
           [] value.d["_type"] = "Vector3" ->
                [k |-> "Vector3", x |-> DictGet(value.d, "x", 0),
                                  y |-> DictGet(value.d, "y", 0),
                                  z |-> DictGet(value.d, "z", 0)]
           [] value.d["_type"] = "Color" ->
                [k |-> "Color", r |-> DictGet(value.d, "r", 1),
                                g |-> DictGet(value.d, "g", 1),
                                b |-> DictGet(value.d, "b", 1),
                                a |-> DictGet(value.d, "a", 0)]
           [] value.d["_type"] = "Rect2" ->
                [k |-> "Rect2", x |-> DictGet(value.d, "x", 0),
                                y |-> DictGet(value.d, "y", 0),
                                w |-> DictGet(value.d, "w", 0),
                                h |-> DictGet(value.d, "h", 0)]
           [] OTHER -> value
    ELSE value

\* The converter taking a native 2D vector for a tagged one and widening it.
ConvertWidening(value) ==
    IF value.k = "dict" /\ "_type" \in DOMAIN value.d
    THEN CASE value.d["_type"] = "Vector2" ->
                [k |-> "Vector2", x |-> DictGet(value.d, "x", 0),
                                  y |-> DictGet(value.d, "y", 0)]
           [] value.d["_type"] = "Vector3" ->
                [k |-> "Vector3", x |-> DictGet(value.d, "x", 0),
                                  y |-> DictGet(value.d, "y", 0),
                                  z |-> DictGet(value.d, "z", 0)]
           [] value.d["_type"] = "Color" ->
                [k |-> "Color", r |-> DictGet(value.d, "r", 1),
                                g |-> DictGet(value.d, "g", 1),
                                b |-> DictGet(value.d, "b", 1),
                                a |-> DictGet(value.d, "a", 1)]
           [] value.d["_type"] = "Rect2" ->
                [k |-> "Rect2", x |-> DictGet(value.d, "x", 0),
                                y |-> DictGet(value.d, "y", 0),
                                w |-> DictGet(value.d, "w", 0),
                                h |-> DictGet(value.d, "h", 0)]
           [] OTHER -> value
    ELSE IF value.k = "Vector2"
    THEN [k |-> "Vector3", x |-> value.x, y |-> value.y, z |-> 0]
    ELSE value

\* _convert_property_value
ConvertPropertyValue(value) ==
    IF value.k = "dict" /\ "_type" \in DOMAIN value.d
    THEN CASE value.d["_type"] = "Vector2" ->
                [k |-> "Vector2", x |-> DictGet(value.d, "x", 0),
                                  y |-> DictGet(value.d, "y", 0)]
           [] value.d["_type"] = "Vector3" ->
                [k |-> "Vector3", x |-> DictGet(value.d, "x", 0),
                                  y |-> DictGet(value.d, "y", 0),
                                  z |-> DictGet(value.d, "z", 0)]
           [] value.d["_type"] = "Color" ->
                [k |-> "Color", r |-> DictGet(value.d, "r", 1),
                                g |-> DictGet(value.d, "g", 1),
                                b |-> DictGet(value.d, "b", 1),
                                a |-> DictGet(value.d, "a", 1)]
           [] value.d["_type"] = "Rect2" ->
                [k |-> "Rect2", x |-> DictGet(value.d, "x", 0),
                                y |-> DictGet(value.d, "y", 0),
                                w |-> DictGet(value.d, "w", 0),
                                h |-> DictGet(value.d, "h", 0)]
           [] OTHER -> value
    ELSE value

\* ------------------------------------------------------------ type registry
\* The curated table of _create_node_of_type, restricted to the types the
\* requests of this model name.
CuratedNodeTypes == {"Node", "Node2D", "AnimationPlayer"}

\* Classes ClassDB knows that are not in the curated table.
ClassDBNodeClasses == {"HTTPRequest"}

\* The curated table of _create_resource_of_type, restricted likewise.
CuratedResourceTypes == {"CircleShape2D", "Animation"}

\* Resource classes ClassDB knows that are not in the curated table.
ClassDBResourceClasses == {"ArrayMesh"}

IsNodeClass(class) == class \in CuratedNodeTypes \cup ClassDBNodeClasses

IsResourceClass(class) == class \in CuratedResourceTypes \cup ClassDBResourceClasses

\* ClassDB.class_exists
ClassExists(type_name) == IsNodeClass(type_name) \/ IsResourceClass(type_name)

\* _create_node_of_type handing on whatever ClassDB instantiates.
CreateNodeOfTypeUnchecked(type_name) ==
    IF type_name \in CuratedNodeTypes THEN type_name
    ELSE IF ClassExists(type_name) THEN type_name
    ELSE "null"

\* _create_node_of_type: the class of the new node, or "null".  The function
\* is declared to return a Node: an object ClassDB instantiated that is not
\* one fails the engine's check of the returned value, and the caller
\* receives null.
CreateNodeOfType(type_name) ==
    IF type_name \in CuratedNodeTypes THEN type_name
    ELSE IF ClassExists(type_name)
    THEN (IF IsNodeClass(type_name) THEN type_name ELSE "null")
    ELSE "null"

\* _create_resource_of_type: the class of the new resource, or "null".
CreateResourceOfType(type_name) ==
    IF type_name \in CuratedResourceTypes THEN type_name
    ELSE IF ClassExists(type_name) /\ IsResourceClass(type_name) THEN type_name
    ELSE "null"

\* The declared type of a property of a node class, "none" when the class
\* does not expose it.
PropertyType(class, prop) ==
    CASE prop = "rotation" /\ class \in {"Node2D"} -> "num"
      [] prop = "position" /\ class \in {"Node2D"} -> "Vector2"
      [] OTHER -> "none"

\* The type of a value as the engine's property setters see it.
ValueType(value) == value.k

\* ------------------------------------------------------------ scene trees
\* A scene is the sequence of its nodes in the order they were added; node 1
\* is the root and every other node names its parent by index.  The children
\* of a node are the nodes naming it, in sequence order.  The empty sequence
\* is a scene state with no node (what PackedScene holds before a successful
\* pack).
NoLib == [has |-> FALSE]

\* Node.set_name stores the name with each character a node name cannot
\* hold (. : @ / " %) replaced by an underscore, for the names of this model.
ValidateNodeName(name) ==
    CASE name = "My/Root" -> "My_Root"
      [] OTHER -> name

NewNode(name, class) ==
    [name |-> name, type |-> class, parent |-> 0,
     props |-> <<>>, script |-> "", lib |-> NoLib]

Indices(doc) == [j \in 1..Len(doc) |-> j]

\* Node.get_children
GetChildren(doc, i) == SelectSeq(Indices(doc), LAMBDA j : doc[j].parent = i)

\* The first child of node i named name, 0 when there is none.
ChildNamed(doc, i, name) ==
    LET c == SelectSeq(GetChildren(doc, i), LAMBDA j : doc[j].name = name)
    IN  IF c = <<>> THEN 0 ELSE c[1]

\* NodePath resolution from node i: "." stays, ".." goes to the parent, a
\* name goes to the child of that name; 0 is null.
RECURSIVE Walk(_, _, _)
Walk(doc, i, path) ==
    IF i = 0 \/ path = <<>> THEN i
    ELSE LET s == Head(path)
             n == CASE s = "."  -> i
                    [] s = ".." -> doc[i].parent
                    [] OTHER    -> ChildNamed(doc, i, s)
         IN  Walk(doc, n, Tail(path))

\* get_node_or_null answering the root for a path that names no node.
GetNodeOrRoot(doc, path) ==
    IF path = <<>> THEN 0
    ELSE IF Walk(doc, 1, path) = 0 THEN 1 ELSE Walk(doc, 1, path)

\* scene_root.get_node_or_null(path): the index of the node, 0 for null.
\* The empty path resolves to null.
GetNodeOrNull(doc, path) == IF path = <<>> THEN 0 ELSE Walk(doc, 1, path)

\* The name the engine gives a child whose requested name is already taken
\* by a sibling.
GeneratedName(name) ==
    CASE name = "A" -> "@A@2"
      [] name = "B" -> "@B@2"
      [] name = "AnimationPlayer" -> "@AnimationPlayer@2"
      [] OTHER -> "@@2"

\* parent.add_child(node); node.owner = scene_root
AddChild(doc, i, node) ==
    LET taken == ChildNamed(doc, i, node.name) # 0
        named == IF taken THEN [node EXCEPT !.name = GeneratedName(node.name)]
                 ELSE node
    IN  Append(doc, [named EXCEPT !.parent = i])

\* Whether node j is node i or lies below it.
RECURSIVE IsInSubtree(_, _, _)
IsInSubtree(doc, i, j) ==
    IF j = 0 THEN FALSE
    ELSE IF j = i THEN TRUE
    ELSE IsInSubtree(doc, i, doc[j].parent)

\* node.get_parent().remove_child(node): the tree without node i and the
\* nodes below it.
RemoveChild(doc, i) ==
    LET keep == SelectSeq(Indices(doc), LAMBDA j : ~IsInSubtree(doc, i, j))
        newIndex(j) == CHOOSE k \in 1..Len(keep) : keep[k] = j
    IN  [k \in 1..Len(keep) |->
            LET n == doc[keep[k]]
            IN  [n EXCEPT !.parent = IF n.parent = 0 THEN 0 ELSE newIndex(n.parent)]]

\* Object.set(prop, value): assigns when the class exposes the property and
\* the value has the property's type, and otherwise changes nothing.
ObjectSet(node, prop, value) ==
    IF PropertyType(node.type, prop) # "none"
       /\ PropertyType(node.type, prop) = ValueType(value)
    THEN [node EXCEPT !.props = (prop :> value) @@ node.props]
    ELSE node

\* The nodes of the subtree at i in pre-order (a node before its children,
\* children in their stored order), as indices.
RECURSIVE PreOrderFrom(_, _)
RECURSIVE PreOrderAll(_, _)
PreOrderFrom(doc, i) == <<i>> \o PreOrderAll(doc, GetChildren(doc, i))
PreOrderAll(doc, is) ==
    IF is = <<>> THEN <<>>
    ELSE PreOrderFrom(doc, Head(is)) \o PreOrderAll(doc, Tail(is))

\* SceneState of a tree: its nodes in the order a scene file stores them.
SceneStateOf(doc) ==
    IF doc = <<>> THEN <<>>
    ELSE LET order == PreOrderFrom(doc, 1)
             newIndex(j) == CHOOSE k \in 1..Len(order) : order[k] = j
         IN  [k \in 1..Len(order) |->
                LET n == doc[order[k]]
                IN  [n EXCEPT !.parent = IF n.parent = 0 THEN 0
                                         ELSE newIndex(n.parent)]]

\* -------------------------------------------------------------- animations
NewAnimation(length, loop) ==
    [length |-> length,
     loop_mode |-> IF loop THEN "LOOP_LINEAR" ELSE "LOOP_NONE",
     tracks |-> <<>>]

\* Animation.track_insert_key: keys are kept ordered by time and a key at
\* the time of an existing key replaces it.
RECURSIVE TrackInsertKey(_, _, _)
TrackInsertKey(keys, time, value) ==
    IF keys = <<>> THEN <<[time |-> time, value |-> value]>>
    ELSE LET last == keys[Len(keys)]
             front == SubSeq(keys, 1, Len(keys) - 1)
         IN  IF last.time = time
             THEN Append(front, [time |-> time, value |-> value])
             ELSE IF last.time < time
             THEN Append(keys, [time |-> time, value |-> value])
             ELSE Append(TrackInsertKey(front, time, value), last)

\* The keyframe loop of _add_animation_track.
RECURSIVE InsertKeyframes(_, _)
InsertKeyframes(keys, keyframes) ==
    IF keyframes = <<>> THEN keys
    ELSE LET kf == Head(keyframes)
         IN  InsertKeyframes(
                TrackInsertKey(keys, DictGet(kf, "time", 0),
                               ConvertPropertyValue(DictGet(kf, "value", Null))),
                Tail(keyframes))

\* ----------------------------------------------------------------- results
\* str(n) for the numbers this model passes to it.
Str(n) ==
    CASE n = 0 -> "0" [] n = 1 -> "1" [] n = 2 -> "2" [] n = 3 -> "3"
      [] OTHER -> "<number>"

Err(message) == [success |-> FALSE, error |-> message]

\* get_base_dir of the file paths of this model.
GetBaseDir(path) == IF path = "" THEN "" ELSE "res://"

\* What a step of a handler hands to the next one: it went on (with the
\* tree as it now is and the node it located), or it returned a result.
Continue(doc, node) == [returned |-> FALSE, doc |-> doc, node |-> node]
Return(res) == [returned |-> TRUE, result |-> res]

\* The default branch of the dispatcher's match, silently doing nothing.
UnknownOperationIgnored(operation) == [success |-> TRUE, message |-> <<"OK">>]

\* The default branch of the dispatcher's match.
UnknownOperation(operation) == Err(<<"Unknown operation: ", operation>>)

\* ------------------------------------------------------------ create_scene
CreateSceneCheck(params) ==
    IF DictGet(params, "scene_path", "") = ""
    THEN Return(Err(<<"scene_path is required">>))
    ELSE Continue(<<>>, 0)

\* The root node of the new scene, a plain Node standing in for a type that
\* cannot be resolved.
CreateSceneRootDefaulting(params) ==
    LET root_type == DictGet(params, "root_type", "Node2D")
        root_name == DictGet(params, "root_name", "Root")
        class == CreateNodeOfType(root_type)
    IN  IF class = "null"
        THEN Continue(<<NewNode(ValidateNodeName(root_name), "Node")>>, 1)
        ELSE Continue(<<NewNode(ValidateNodeName(root_name), class)>>, 1)

\* The root node of the new scene, or the unknown-type failure.
CreateSceneRoot(params) ==
    LET root_type == DictGet(params, "root_type", "Node2D")
        root_name == DictGet(params, "root_name", "Root")
        class == CreateNodeOfType(root_type)
    IN  IF class = "null"
        THEN Return(Err(<<"Unknown node type: ", root_type>>))
        ELSE Continue(<<NewNode(ValidateNodeName(root_name), class)>>, 1)

CreateScenePackFailed == Err(<<"Failed to pack scene">>)

CreateSceneSaveFailed(code) == Err(<<"Failed to save scene: ", code>>)

CreateSceneSuccess(params) ==
    [success |-> TRUE,
     message |-> <<"Created scene at ", params.scene_path>>,
     scene_path |-> params.scene_path,
     root_type |-> DictGet(params, "root_type", "Node2D"),
     root_name |-> DictGet(params, "root_name", "Root")]

\* ---------------------------------------------------------------- add_node
AddNodeCheck(params) ==
    IF DictGet(params, "scene_path", "") = ""
    THEN Return(Err(<<"scene_path is required">>))
    ELSE Continue(<<>>, 0)

\* The load failure reported with the text of the save failure.
LoadFailedAsSaveFailed(params) == Err(<<"Failed to save scene">>)

LoadFailed(params) == Err(<<"Failed to load scene: ", params.scene_path>>)

\* The save failure reported in the message field.
SaveFailedAsMessage == [success |-> FALSE, message |-> <<"Failed to save scene">>]

SaveFailed == Err(<<"Failed to save scene">>)

AddNodeLocate(doc, params) ==
    LET parent_path == DictGet(params, "parent_path", Dot)
        parent_node == IF parent_path = Dot THEN 1
                       ELSE GetNodeOrNull(doc, parent_path)
    IN  IF parent_node = 0
        THEN Return(Err(<<"Parent node not found: ">> \o parent_path))
        ELSE Continue(doc, parent_node)

\* The property loop of _add_node: a key is set, with the value as given,
\* when the new node exposes it.
RECURSIVE AddNodeSetProperties(_, _)
AddNodeSetProperties(node, properties) ==
    IF properties = <<>> THEN node
    ELSE LET prop_name == Head(properties)[1]
             value == Head(properties)[2]
             next == IF PropertyType(node.type, prop_name) # "none"
                     THEN ObjectSet(node, prop_name, value)
                     ELSE node
         IN  AddNodeSetProperties(next, Tail(properties))

AddNodeMutate(doc, parent_node, params) ==
    LET node_type == DictGet(params, "node_type", "Node")
        node_name == DictGet(params, "node_name", "NewNode")
        properties == DictGet(params, "properties", <<>>)
        class == CreateNodeOfType(node_type)
    IN  IF class = "null"
        THEN Return(Err(<<"Unknown node type: ", node_type>>))
        ELSE Continue(
                AddChild(doc, parent_node,
                         AddNodeSetProperties(NewNode(ValidateNodeName(node_name), class),
                                              properties)),
                parent_node)

AddNodeSuccess(params) ==
    LET parent_path == DictGet(params, "parent_path", Dot)
        node_type == DictGet(params, "node_type", "Node")
        node_name == DictGet(params, "node_name", "NewNode")
    IN  [success |-> TRUE,
         message |-> <<"Added ", node_type, " node '", node_name, "' to ">>
                     \o parent_path,
         node_path |-> IF parent_path # Dot THEN Append(parent_path, node_name)
                       ELSE <<node_name>>]

\* ------------------------------------------------------------- remove_node
RemoveNodeCheck(params) ==
    IF DictGet(params, "scene_path", "") = "" \/ DictGet(params, "node_path", <<>>) = <<>>
    THEN Return(Err(<<"scene_path and node_path are required">>))
    ELSE Continue(<<>>, 0)

RemoveNodeLocate(doc, params) ==
    LET node == GetNodeOrNull(doc, params.node_path)
    IN  IF node = 0
        THEN Return(Err(<<"Node not found: ">> \o params.node_path))
        ELSE IF node = 1
        THEN Return(Err(<<"Cannot remove root node">>))
        ELSE Continue(doc, node)

RemoveNodeMutate(doc, node, params) == Continue(RemoveChild(doc, node), 0)

RemoveNodeSuccess(params) ==
    [success |-> TRUE, message |-> <<"Removed node: ">> \o params.node_path]

\* ------------------------------------------------------------- modify_node
ModifyNodeCheck(params) ==
    IF DictGet(params, "scene_path", "") = "" \/ DictGet(params, "node_path", <<>>) = <<>>
    THEN Return(Err(<<"scene_path and node_path are required">>))
    ELSE Continue(<<>>, 0)

ModifyNodeLocate(doc, params) ==
    LET node == IF params.node_path # Dot THEN GetNodeOrNull(doc, params.node_path)
                ELSE 1
    IN  IF node = 0
        THEN Return(Err(<<"Node not found: ">> \o params.node_path))
        ELSE Continue(doc, node)

\* The property loop of _modify_node: every value is converted and set.
RECURSIVE ModifyNodeSetProperties(_, _)
ModifyNodeSetProperties(node, properties) ==
    IF properties = <<>> THEN node
    ELSE ModifyNodeSetProperties(
            ObjectSet(node, Head(properties)[1],
                      ConvertPropertyValue(Head(properties)[2])),
            Tail(properties))

ModifyNodeMutate(doc, node, params) ==
    Continue([doc EXCEPT ![node] =
                ModifyNodeSetProperties(@, DictGet(params, "properties", <<>>))],
             node)

ModifyNodeSuccess(params) ==
    LET properties == DictGet(params, "properties", <<>>)
    IN  [success |-> TRUE,
         message |-> <<"Modified properties on ">> \o params.node_path,
         modified_properties |-> [i \in 1..Len(properties) |-> properties[i][1]]]

\* ------------------------------------------------- read_scene / list_nodes
ReadSceneCheck(params) ==
    IF DictGet(params, "scene_path", "") = ""
    THEN Return(Err(<<"scene_path is required">>))
    ELSE Continue(<<>>, 0)

\* _serialize_node_tree.  The loaded tree is never entered into the running
\* scene tree, so Node.get_path yields the empty path for each of its nodes.
RECURSIVE SerializeNodeTree(_, _)
RECURSIVE SerializeChildren(_, _)
SerializeNodeTree(doc, i) ==
    LET data == [name |-> doc[i].name, type |-> doc[i].type, path |-> <<>>]
        withScript == IF doc[i].script # ""
                      THEN [script |-> doc[i].script] @@ data ELSE data
        children == SerializeChildren(doc, GetChildren(doc, i))
    IN  IF Len(children) > 0 THEN [children |-> children] @@ withScript
        ELSE withScript
SerializeChildren(doc, is) ==
    IF is = <<>> THEN <<>>
    ELSE <<SerializeNodeTree(doc, Head(is))>> \o SerializeChildren(doc, Tail(is))

ReadSceneSuccess(doc, params) ==
    [success |-> TRUE, scene_path |-> params.scene_path,
     tree |-> SerializeNodeTree(doc, 1)]

\* root.get_path_to(node): the names from below the root down to the node.
RECURSIVE GetPathTo(_, _)
GetPathTo(doc, i) ==
    IF i = 1 THEN <<>> ELSE Append(GetPathTo(doc, doc[i].parent), doc[i].name)

\* _collect_node_paths
RECURSIVE CollectNodePaths(_, _)
RECURSIVE CollectChildPaths(_, _)
CollectNodePaths(doc, i) ==
    LET node_path == IF i = 1 THEN Dot ELSE GetPathTo(doc, i)
    IN  <<[path |-> node_path, type |-> doc[i].type, name |-> doc[i].name]>>
        \o CollectChildPaths(doc, GetChildren(doc, i))
CollectChildPaths(doc, is) ==
    IF is = <<>> THEN <<>>
    ELSE CollectNodePaths(doc, Head(is)) \o CollectChildPaths(doc, Tail(is))

ListNodesSuccess(doc, params) ==
    [success |-> TRUE, nodes |-> CollectNodePaths(doc, 1)]

\* ----------------------------------------------------------- create_script
CreateScriptCheck(params) ==
    IF DictGet(params, "script_path", "") = ""
    THEN Return(Err(<<"script_path is required">>))
    ELSE Continue(<<>>, 0)

\* _generate_script_template: the text, as its parts.
GenerateScriptTemplate(extends_type, class_name_str, template) ==
    (IF class_name_str # "" THEN <<"class_name ", class_name_str, "\n">> ELSE <<>>)
    \o <<"extends ", extends_type, "\n\n">>
    \o <<CASE template = "empty" -> "# Empty script\npass\n"
           [] template = "character_2d" -> "character_2d body"
           [] template = "character_3d" -> "character_3d body"
           [] OTHER -> "func _ready / func _process">>

CreateScriptContent(params) ==
    LET content == DictGet(params, "content", "")
    IN  IF content # "" THEN <<content>>
        ELSE GenerateScriptTemplate(DictGet(params, "extends", "Node"),
                                    DictGet(params, "class_name", ""),
                                    DictGet(params, "template", "default"))

CreateScriptOpenFailed == Err(<<"Failed to create script file">>)

CreateScriptSuccess(params) ==
    [success |-> TRUE,
     message |-> <<"Created script at ", params.script_path>>,
     script_path |-> params.script_path]

\* ----------------------------------------------------------- attach_script
AttachScriptCheck(params) ==
    IF DictGet(params, "scene_path", "") = "" \/ DictGet(params, "script_path", "") = ""
    THEN Return(Err(<<"scene_path and script_path are required">>))
    ELSE Continue(<<>>, 0)

AttachScriptLoadFailed(params) == Err(<<"Failed to load script: ", params.script_path>>)

AttachScriptLocate(doc, params) ==
    LET node_path == DictGet(params, "node_path", Dot)
        node == IF node_path # Dot THEN GetNodeOrNull(doc, node_path) ELSE 1
    IN  IF node = 0
        THEN Return(Err(<<"Node not found: ">> \o node_path))
        ELSE Continue(doc, node)

AttachScriptMutate(doc, node, params) ==
    Continue([doc EXCEPT ![node].script = params.script_path], node)

AttachScriptSuccess(params) ==
    [success |-> TRUE,
     message |-> <<"Attached script ", params.script_path, " to ">>
                 \o DictGet(params, "node_path", Dot)]

\* -------------------------------------------------------- create_animation
CreateAnimationCheck(params) ==
    IF DictGet(params, "scene_path", "") = ""
    THEN Return(Err(<<"scene_path is required">>))
    ELSE Continue(<<>>, 0)

CreateAnimationLocate(doc, params) ==
    LET node_path == DictGet(params, "node_path", Dot)
        target_node == IF node_path # Dot THEN GetNodeOrNull(doc, node_path) ELSE 1
    IN  IF target_node = 0
        THEN Return(Err(<<"Node not found: ">> \o node_path))
        ELSE Continue(doc, target_node)

\* The first AnimationPlayer among the children of the target, 0 if none.
FindAnimationPlayer(doc, target_node) ==
    LET players == SelectSeq(GetChildren(doc, target_node),
                             LAMBDA j : doc[j].type = "AnimationPlayer")
    IN  IF players = <<>> THEN 0 ELSE players[1]

\* AnimationLibrary.add_animation into the player's "" library, which is
\* created when the player has none.
AddToDefaultLibrary(node, animation_name, animation) ==
    LET anims == IF node.lib.has THEN node.lib.anims ELSE <<>>
    IN  [node EXCEPT !.lib = [has |-> TRUE,
                              anims |-> (animation_name :> animation) @@ anims]]

CreateAnimationMutate(doc, target_node, params) ==
    LET animation_name == DictGet(params, "animation_name", "default")
        found == FindAnimationPlayer(doc, target_node)
        withPlayer == IF found # 0 THEN doc
                      ELSE AddChild(doc, target_node,
                                    NewNode("AnimationPlayer", "AnimationPlayer"))
        anim_player == IF found # 0 THEN found ELSE Len(withPlayer)
        animation == NewAnimation(DictGet(params, "duration", 1),
                                  DictGet(params, "loop", FALSE))
    IN  Continue([withPlayer EXCEPT ![anim_player] =
                    AddToDefaultLibrary(@, animation_name, animation)],
                 target_node)

CreateAnimationSuccess(params) ==
    [success |-> TRUE,
     message |-> <<"Created animation '", DictGet(params, "animation_name", "default"),
                   "' with duration ", Str(DictGet(params, "duration", 1)), "s">>]

\* ----------------------------------------------------- add_animation_track
AddAnimationTrackCheck(params) ==
    IF DictGet(params, "scene_path", "") = ""
       \/ DictGet(params, "animation_player_path", <<>>) = <<>>
    THEN Return(Err(<<"scene_path and animation_player_path are required">>))
    ELSE Continue(<<>>, 0)

\* The player (a node that is an AnimationPlayer) and the named animation.
AddAnimationTrackLocate(doc, params) ==
    LET animation_name == DictGet(params, "animation_name", "default")
        node == GetNodeOrNull(doc, params.animation_player_path)
        anim_player == IF node # 0 /\ doc[node].type = "AnimationPlayer"
                       THEN node ELSE 0
    IN  IF anim_player = 0
        THEN Return(Err(<<"AnimationPlayer not found: ">>
                        \o params.animation_player_path))
        ELSE IF ~(doc[anim_player].lib.has
                  /\ animation_name \in DOMAIN doc[anim_player].lib.anims)
        THEN Return(Err(<<"Animation not found: ", animation_name>>))
        ELSE Continue(doc, anim_player)

AddAnimationTrackMutate(doc, anim_player, params) ==
    LET animation_name == DictGet(params, "animation_name", "default")
        track_path == DictGet(params, "target_node_path", <<>>)
                      \o <<":", DictGet(params, "property", "")>>
        track == [path |-> track_path,
                  keys |-> InsertKeyframes(<<>>, DictGet(params, "keyframes", <<>>))]
    IN  Continue([doc EXCEPT ![anim_player].lib.anims[animation_name].tracks =
                    Append(@, track)],
                 anim_player)

AddAnimationTrackSuccess(params) ==
    [success |-> TRUE,
     message |-> <<"Added animation track for ", DictGet(params, "property", ""),
                   " on ">> \o DictGet(params, "target_node_path", <<>>)]

\* --------------------------------------------------------- create_resource
CreateResourceCheck(params) ==
    IF DictGet(params, "resource_path", "") = "" \/ DictGet(params, "resource_type", "") = ""
    THEN Return(Err(<<"resource_path and resource_type are required">>))
    ELSE Continue(<<>>, 0)

\* The declared type of a property of a resource class.
ResourcePropertyType(class, prop) ==
    CASE prop = "radius" /\ class = "CircleShape2D" -> "num"
      [] OTHER -> "none"

RECURSIVE CreateResourceSetProperties(_, _)
CreateResourceSetProperties(resource, properties) ==
    IF properties = <<>> THEN resource
    ELSE LET prop_name == Head(properties)[1]
             value == ConvertPropertyValue(Head(properties)[2])
             next == IF ResourcePropertyType(resource.type, prop_name) # "none"
                        /\ ResourcePropertyType(resource.type, prop_name) = ValueType(value)
                     THEN [resource EXCEPT !.props = (prop_name :> value) @@ @]
                     ELSE resource
         IN  CreateResourceSetProperties(next, Tail(properties))

\* The new resource with its properties set, or the unknown-type failure.
CreateResourceBuild(params) ==
    LET class == CreateResourceOfType(params.resource_type)
    IN  IF class = "null"
        THEN Return(Err(<<"Unknown resource type: ", params.resource_type>>))
        ELSE Continue(
                CreateResourceSetProperties([type |-> class, props |-> <<>>],
                                            DictGet(params, "properties", <<>>)),
                0)

CreateResourceSaveFailed == Err(<<"Failed to save resource">>)

CreateResourceSuccess(params) ==
    [success |-> TRUE,
     message |-> <<"Created ", params.resource_type, " at ", params.resource_path>>]

\* ------------------------------------------------------------ project info
GetProjectInfoFailed == Err(<<"Failed to load project.godot">>)

GetProjectInfoSuccess ==
    [success |-> TRUE, project_name |-> "Unknown", main_scene |-> "",
     godot_version |-> "version", project_path |-> "/project/"]

ListScenesSuccess(found) == [success |-> TRUE, scenes |-> found]

ListScriptsSuccess(found) == [success |-> TRUE, scripts |-> found]

\* ================================================================== state
OperationNames ==
    {"create_scene", "add_node", "remove_node", "modify_node", "read_scene",
     "list_nodes", "create_script", "attach_script", "create_animation",
     "add_animation_track", "create_resource", "get_project_info",
     "list_scenes", "list_scripts"}

\* Operations that load a scene, change it and save it.
MutatingOps ==
    {"add_node", "remove_node", "modify_node", "attach_script",
     "create_animation", "add_animation_track"}

ReadOnlyOps == {"read_scene", "list_nodes"}

ProjectOps == {"get_project_info", "list_scenes", "list_scripts"}

Paths == {ScenePath, OtherScenePath, ScriptPath, ResourcePath}

SceneFile(state) == [file |-> "scene", state |-> state]
ScriptFile(text) == [file |-> "script", text |-> text]
ResourceFile(res) == [file |-> "resource", res |-> res]

NoIO == [loads |-> 0, saves |-> 0, writes |-> 0, mkdirs |-> 0]

VARIABLES
    fs,               \* the project's files: path -> content
    dirs,             \* the project's directories
    pc,               \* where each engine process is in the script
    args,             \* the user arguments of each engine process
    packed_scene,     \* the PackedScene a handler loaded
    scene_root,       \* the tree a handler instantiated or built
    target,           \* the node a handler located
    live,             \* the objects instantiated and not yet freed
    new_packed_scene, \* the PackedScene a handler packed for saving
    result,           \* the record the handler returned
    stdout,           \* the framed result blocks written so far
    exit_code,        \* the code given to quit, -1 before quit
    io,               \* what the invocation did to the file system
    steps,            \* the steps the invocation took, with their outcome
    fs0               \* the files as they were when the invocation began

evars == <<fs, dirs, pc, args, packed_scene, scene_root, target, live,
          new_packed_scene, result, stdout, exit_code, io, steps, fs0>>

Operation(p) == args[p].operation

\* var params = {} unless a second argument was parsed
Params(p) == IF args[p].argc = 2 THEN args[p].payload.data ELSE <<>>

Step(name, ok) == [step |-> name, ok |-> ok]

\* ---------------------------------------------------------------- requests
\* The argument vectors engine processes are started with.
Object(op, data) ==
    [argc |-> 2, operation |-> op, payload |-> [json |-> "object", data |-> data]]

TaggedVector == Dict([_type |-> "Vector2", x |-> 5])

CreateSceneRequests ==
    {[scene_path |-> ScenePath],
     [scene_path |-> ScenePath, root_type |-> "Bogus", root_name |-> "Root"],
     [scene_path |-> ScenePath, root_type |-> "Animation", root_name |-> "Root"],
     [root_type |-> "Node2D"]}

AddNodeRequests ==
    {[scene_path |-> ScenePath, node_type |-> "Node2D", node_name |-> "A"],
     [scene_path |-> ScenePath, node_type |-> "AnimationPlayer", node_name |-> "B"],
     [scene_path |-> ScenePath, parent_path |-> <<"A">>, node_type |-> "Node2D",
      node_name |-> "B"],
     [scene_path |-> ScenePath, parent_path |-> <<"missing">>,
      node_type |-> "Node2D", node_name |-> "B"],
     [scene_path |-> ScenePath, node_type |-> "Bogus", node_name |-> "A"],
     [scene_path |-> ScenePath, node_type |-> "Animation", node_name |-> "A"],
     [scene_path |-> ScenePath, node_type |-> "Node2D", node_name |-> "A",
      properties |-> <<<<"position", TaggedVector>>, <<"rotation", Num(1)>>,
                       <<"bogus", Num(1)>>>>],
     [scene_path |-> ScenePath, node_type |-> "Node2D"],
     [node_type |-> "Node2D"]}

RemoveNodeRequests ==
    {[scene_path |-> ScenePath, node_path |-> np] :
        np \in {Dot, <<"A">>, <<"missing">>}}
    \cup {[scene_path |-> ScenePath]}

ModifyNodeRequests ==
    {[scene_path |-> ScenePath, node_path |-> Dot,
      properties |-> <<<<"position", TaggedVector>>>>],
     [scene_path |-> ScenePath, node_path |-> <<"A">>,
      properties |-> <<<<"bogus", Num(1)>>>>],
     [scene_path |-> ScenePath, node_path |-> <<"missing">>],
     [node_path |-> Dot]}

ReadRequests == {[scene_path |-> ScenePath], [scene_path |-> ""]}

CreateScriptRequests ==
    {[script_path |-> ScriptPath, extends |-> "Node2D"],
     [content |-> "custom"]}

AttachScriptRequests ==
    {[scene_path |-> ScenePath, script_path |-> ScriptPath],
     [scene_path |-> ScenePath, script_path |-> ScriptPath, node_path |-> <<"missing">>],
     [scene_path |-> ScenePath]}

CreateAnimationRequests ==
    {[scene_path |-> ScenePath, animation_name |-> "walk", duration |-> 2,
      loop |-> TRUE],
     [scene_path |-> ScenePath, node_path |-> <<"missing">>],
     [animation_name |-> "walk"]}

AddAnimationTrackRequests ==
    {[scene_path |-> ScenePath, animation_player_path |-> pp, animation_name |-> an,
      target_node_path |-> Dot, property |-> "position",
      keyframes |-> <<[time |-> 0, value |-> TaggedVector]>>] :
        pp \in {<<"AnimationPlayer">>, <<"A">>}, an \in {"walk", "run"}}
    \cup {[scene_path |-> ScenePath, animation_player_path |-> <<"AnimationPlayer">>,
           animation_name |-> "walk", target_node_path |-> Dot,
           property |-> "rotation",
           keyframes |-> <<[time |-> 1, value |-> Num(1)], [time |-> 0, value |-> Num(2)],
                           [time |-> 1, value |-> Num(3)]>>]}
    \cup {[scene_path |-> ScenePath]}

CreateResourceRequests ==
    {[resource_path |-> ResourcePath, resource_type |-> "CircleShape2D",
      properties |-> <<<<"radius", Num(2)>>>>],
     [resource_path |-> ResourcePath, resource_type |-> "Bogus"],
     [resource_path |-> ResourcePath, resource_type |-> "Node2D"],
     [resource_path |-> ResourcePath]}

ObjectRequests ==
    {Object("create_scene", d) : d \in CreateSceneRequests}
    \cup {Object("add_node", d) : d \in AddNodeRequests}
    \cup {Object("remove_node", d) : d \in RemoveNodeRequests}
    \cup {Object("modify_node", d) : d \in ModifyNodeRequests}
    \cup {Object(op, d) : op \in ReadOnlyOps, d \in ReadRequests}
    \cup {Object("create_script", d) : d \in CreateScriptRequests}
    \cup {Object("attach_script", d) : d \in AttachScriptRequests}
    \cup {Object("create_animation", d) : d \in CreateAnimationRequests}
    \cup {Object("add_animation_track", d) : d \in AddAnimationTrackRequests}
    \cup {Object("create_resource", d) : d \in CreateResourceRequests}

Requests ==
    {NoArgs}
    \cup {[argc |-> 1, operation |-> op] :
            op \in ProjectOps \cup {"read_scene", "bogus", ""}}
    \cup {[argc |-> 2, operation |-> "list_nodes", payload |-> [json |-> j]] :
            j \in {"invalid", "array"}}
    \cup {Object("bogus", [scene_path |-> ScenePath])}
    \cup ObjectRequests

\* Requests that add a node are issued while the scene has room for one.
GrowsScene(a) ==
    a.argc = 2 /\ a.operation \in {"add_node", "create_animation"}

HasRoom ==
    IF fs[ScenePath].file = "scene" THEN Len(fs[ScenePath].state) < MaxNodes
    ELSE TRUE

\* The number of tracks of the animations of a node.
RECURSIVE CountTracks(_, _)
CountTracks(anims, names) ==
    IF names = {} THEN 0
    ELSE LET n == CHOOSE n \in names : TRUE
         IN  Len(anims[n].tracks) + CountTracks(anims, names \ {n})

RECURSIVE CountSceneTracks(_)
CountSceneTracks(doc) ==
    IF doc = <<>> THEN 0
    ELSE (IF Head(doc).lib.has
          THEN CountTracks(Head(doc).lib.anims, DOMAIN Head(doc).lib.anims) ELSE 0)
         + CountSceneTracks(Tail(doc))

\* Requests that add a track are issued while the scene has room for one.
HasTrackRoom ==
    IF fs[ScenePath].file = "scene"
    THEN CountSceneTracks(fs[ScenePath].state) < MaxTracks
    ELSE TRUE

\* ------------------------------------------------- handler dispatch tables
\* The required-parameter check that opens the handler of op.
Check(op, params) ==
    CASE op = "create_scene" -> CreateSceneCheck(params)
      [] op = "add_node" -> AddNodeCheck(params)
      [] op = "remove_node" -> RemoveNodeCheck(params)
      [] op = "modify_node" -> ModifyNodeCheck(params)
      [] op \in ReadOnlyOps -> ReadSceneCheck(params)
      [] op = "create_script" -> CreateScriptCheck(params)
      [] op = "attach_script" -> AttachScriptCheck(params)
      [] op = "create_animation" -> CreateAnimationCheck(params)
      [] op = "add_animation_track" -> AddAnimationTrackCheck(params)
      [] op = "create_resource" -> CreateResourceCheck(params)

\* Where the handler of op goes after its parameter check.
AfterCheck(op) ==
    CASE op = "create_scene" -> "create_root"
      [] op = "create_script" -> "write_script"
      [] op = "create_resource" -> "create_resource"
      [] OTHER -> "load"

LocateTarget(op, doc, params) ==
    CASE op = "add_node" -> AddNodeLocate(doc, params)
      [] op = "remove_node" -> RemoveNodeLocate(doc, params)
      [] op = "modify_node" -> ModifyNodeLocate(doc, params)
      [] op = "attach_script" -> AttachScriptLocate(doc, params)
      [] op = "create_animation" -> CreateAnimationLocate(doc, params)
      [] op = "add_animation_track" -> AddAnimationTrackLocate(doc, params)

MutateTree(op, doc, node, params) ==
    CASE op = "add_node" -> AddNodeMutate(doc, node, params)
      [] op = "remove_node" -> RemoveNodeMutate(doc, node, params)
      [] op = "modify_node" -> ModifyNodeMutate(doc, node, params)
      [] op = "attach_script" -> AttachScriptMutate(doc, node, params)
      [] op = "create_animation" -> CreateAnimationMutate(doc, node, params)
      [] op = "add_animation_track" -> AddAnimationTrackMutate(doc, node, params)

SaveFailure(op, code) ==
    IF op = "create_scene" THEN CreateSceneSaveFailed(code) ELSE SaveFailed

Success(op, params) ==
    CASE op = "create_scene" -> CreateSceneSuccess(params)
      [] op = "add_node" -> AddNodeSuccess(params)
      [] op = "remove_node" -> RemoveNodeSuccess(params)
      [] op = "modify_node" -> ModifyNodeSuccess(params)
      [] op = "attach_script" -> AttachScriptSuccess(params)
      [] op = "create_animation" -> CreateAnimationSuccess(params)
      [] op = "add_animation_track" -> AddAnimationTrackSuccess(params)

\* =========================================================== host executor
\* GodotExecutor (godot/executor.ts).  The text of a stream is modelled as
\* the sequence of its parts: the two marker tokens, whitespace, a JSON
\* document, and any other text.
MaxCalls == 2

Calls == 1..MaxCalls

OpenMarker == [t |-> "[GODOT_MCP_RESULT]"]
CloseMarker == [t |-> "[/GODOT_MCP_RESULT]"]
Ws == [t |-> "whitespace"]
Text == [t |-> "text"]
Json(v) == [t |-> "json", v |-> v]
JsonNull == [null |-> TRUE]

\* The text of a JSON document that is seen in pieces: the piece up to
\* some point inside one of its strings, and the rest.  Between the two
\* stand the marker tokens that string holds.
JsonHead(v) == [t |-> "json_head", v |-> v]
JsonTail == [t |-> "json_tail"]

\* A character outside ASCII in a string, and U+FFFD.
NonAscii == [t |-> "non-ascii character"]
Replacement == [t |-> "U+FFFD"]

\* The bytes of a JSON document cut inside a character of several bytes:
\* the bytes before the cut, which end a chunk, and those after it, which
\* begin the next one.
BytesHead(v) == [t |-> "bytes_head", v |-> v]
BytesTail == [t |-> "bytes_tail"]

\* The string fields of a result record.
StringFields(v) == {"error", "message"} \cap DOMAIN v

\* The record whose strings have U+FFFD where v has the character.
Replaced(v) ==
    [f \in DOMAIN v |->
        IF f \in StringFields(v)
        THEN [i \in 1..Len(v[f]) |->
                 IF v[f][i] = NonAscii THEN Replacement ELSE v[f][i]]
        ELSE v[f]]

\* data.toString() of one chunk: UTF-8 decoding of the chunk on its own.
\* The bytes of a character cut off at either end decode to U+FFFD.
RECURSIVE DataToString(_)
DataToString(data) ==
    IF data = <<>> THEN <<>>
    ELSE <<CASE Head(data).t = "bytes_head" -> JsonHead(Replaced(Head(data).v))
             [] Head(data).t = "bytes_tail" -> JsonTail
             [] OTHER -> Head(data)>> \o DataToString(Tail(data))

\* stdout += data.toString(): the chunks received so far, joined.
RECURSIVE Flatten(_)
Flatten(chunks) ==
    IF chunks = <<>> THEN <<>> ELSE Head(chunks) \o Flatten(Tail(chunks))

\* String.prototype.trim
RECURSIVE TrimStart(_)
TrimStart(text) ==
    IF text # <<>> /\ Head(text) = Ws THEN TrimStart(Tail(text)) ELSE text

RECURSIVE TrimEnd(_)
TrimEnd(text) ==
    IF text # <<>> /\ text[Len(text)] = Ws
    THEN TrimEnd(SubSeq(text, 1, Len(text) - 1)) ELSE text

Trim(text) == TrimEnd(TrimStart(text))

\* stdout.match(/\[GODOT_MCP_RESULT\](.*)\[\/GODOT_MCP_RESULT\]/s): the
\* leftmost opening marker, and the group as long as it can be, so up to the
\* last closing marker after it.
ResultMatch(text) ==
    LET opens == {i \in 1..Len(text) : text[i] = OpenMarker}
        first == CHOOSE i \in opens : \A j \in opens : i <= j
        closes == {i \in 1..Len(text) : text[i] = CloseMarker /\ i > first}
        last == CHOOSE i \in closes : \A j \in closes : i >= j
    IN  IF opens = {} THEN [matched |-> FALSE]
        ELSE IF closes = {} THEN [matched |-> FALSE]
        ELSE [matched |-> TRUE, group |-> SubSeq(text, first + 1, last - 1)]

\* The marker tokens in the strings of a record, in the order of its keys.
MarkersIn(v) ==
    LET held(f) == IF f \in StringFields(v)
                   THEN SelectSeq(v[f], LAMBDA k : k \in {OpenMarker, CloseMarker})
                   ELSE <<>>
    IN  held("error") \o held("message")

\* The text of a JSON document in pieces.
Pieces(v) == <<JsonHead(v)>> \o MarkersIn(v) \o <<JsonTail>>

\* JSON.stringify: the text of the document.  A marker inside one of its
\* strings is in the text as it is.
JsonStringify(value) ==
    IF MarkersIn(value) = <<>> THEN <<Json(value)>> ELSE Pieces(value)

\* JSON.parse: the text must be one JSON document, whole or in its pieces.
JsonParse(text) ==
    IF Len(text) = 1 /\ text[1].t = "json"
    THEN [ok |-> TRUE, value |-> text[1].v]
    ELSE IF text # <<>> /\ text[1].t = "json_head" /\ text = Pieces(text[1].v)
    THEN [ok |-> TRUE, value |-> text[1].v]
    ELSE [ok |-> FALSE]

\* a ?? b on the field of a decoded object
Coalesce(object, field, default) ==
    IF field \in DOMAIN object THEN object[field] ELSE default

Undefined == <<[undefined |-> TRUE]>>

\* The object literal {success, output, error}: error is left out when it
\* is undefined.
ExecutionResult(success, output, error) ==
    IF error = Undefined
    THEN [success |-> success, output |-> output]
    ELSE [success |-> success, output |-> output, error |-> error]

\* The try block of the close handler: the result built from the decoded
\* record; reading a field of null throws.
FromRecord(record) ==
    IF record = JsonNull THEN [thrown |-> TRUE]
    ELSE [thrown |-> FALSE,
          value |-> ExecutionResult(
                        Coalesce(record, "success", TRUE),
                        Coalesce(record, "output",
                                 Coalesce(record, "message", JsonStringify(record))),
                        Coalesce(record, "error", Undefined))]

\* The exit code handed to the close handler: a number, or null when the
\* process was ended by a signal.
ExitCode(n) == [code |-> n]
Signalled == [signal |-> "SIGKILL"]
ExitedZero(code) == code = ExitCode(0)

\* stderr.trim() || undefined
OrUndefined(text) == IF text = <<>> THEN Undefined ELSE text

\* The fallback of both close handlers.
Fallback(stdout_text, stderr_text, code) ==
    ExecutionResult(ExitedZero(code), Trim(stdout_text), OrUndefined(Trim(stderr_text)))

\* The close handler with the fallback reporting success whatever the code.
OnCloseAlwaysSuccess(stdout_text, stderr_text, code) ==
    LET m == ResultMatch(stdout_text)
        parsed == IF m.matched THEN JsonParse(Trim(m.group)) ELSE [ok |-> FALSE]
        built == IF parsed.ok THEN FromRecord(parsed.value) ELSE [thrown |-> TRUE]
    IN  IF ~built.thrown THEN built.value
        ELSE ExecutionResult(TRUE, Trim(stdout_text), OrUndefined(Trim(stderr_text)))

\* proc.on("close") of execute: what it resolves the promise with.
OnClose(stdout_text, stderr_text, code) ==
    LET m == ResultMatch(stdout_text)
        parsed == IF m.matched THEN JsonParse(Trim(m.group)) ELSE [ok |-> FALSE]
        built == IF parsed.ok THEN FromRecord(parsed.value) ELSE [thrown |-> TRUE]
    IN  IF ~built.thrown THEN built.value
        ELSE Fallback(stdout_text, stderr_text, code)

\* proc.on("close") of executeRaw
OnCloseRaw(stdout_text, stderr_text, code) ==
    Fallback(stdout_text, stderr_text, code)

\* proc.on("error") of both
OnError(message) == ExecutionResult(FALSE, <<>>, message)

\* _output_result as the host sees it: three printed lines.
Frame(record) ==
    <<OpenMarker, Ws>> \o JsonStringify(record) \o <<Ws, CloseMarker, Ws>>

OkRecord == [success |-> TRUE, message |-> <<Text>>]
FailRecord == [success |-> FALSE, error |-> <<Text>>]
DataRecord == [success |-> TRUE, nodes |-> <<>>]

\* What a spawned process may write, in chunks, and how it ends.
Process(out, err, code) == [out |-> out, err |-> err, code |-> code]

ProcessOutputs ==
    {Process(<< <<Text, Ws>>, Frame(OkRecord) >>, <<>>, ExitCode(0)),
     Process(<< Frame(FailRecord) >>, << <<Text, Ws>> >>, ExitCode(0)),
     Process(<< Frame(DataRecord), <<Text, CloseMarker, Ws>> >>, <<>>, ExitCode(0)),
     Process(<< <<Ws, Text, Ws>> >>, << <<Text>> >>, ExitCode(1)),
     Process(<<>>, <<>>, ExitCode(1)),
     Process(<< <<OpenMarker, Text, CloseMarker>> >>, <<>>, ExitCode(0)),
     Process(<<>>, <<>>, Signalled),
     Process(<< <<OpenMarker, Json(JsonNull), CloseMarker>> >>, <<>>, ExitCode(0)),
     Process(<< <<OpenMarker, Ws, Json(FailRecord)>>, <<Ws, CloseMarker>> >>, <<>>,
             ExitCode(1))}

\* What a process started by executeRaw may write.
RawOutputs ==
    {Process(<< <<Text, Ws>>, Frame(OkRecord) >>, <<>>, ExitCode(0)),
     Process(<< <<Ws, Text, Ws>> >>, << <<Text>> >>, ExitCode(1)),
     Process(<<>>, <<>>, ExitCode(1))}

\* Result records of the dispatcher: with a message, with an error, with
\* data only, with the marker tokens inside a string (an error or a message
\* that quotes a parameter), and with a character outside ASCII.
MarkerFailRecord == [success |-> FALSE, error |-> <<CloseMarker, Text, OpenMarker>>]
MarkerOkRecord == [success |-> TRUE, message |-> <<Text, CloseMarker>>]
NonAsciiRecord == [success |-> TRUE, message |-> <<Text, NonAscii>>]

DispatcherRecords ==
    {OkRecord, FailRecord, DataRecord, MarkerFailRecord, MarkerOkRecord,
     NonAsciiRecord}

\* What the engine prints on standard output before the script runs.
Banner == <<Text, Ws>>

\* The framed block of a record read from the pipe in two chunks, the
\* first ending inside the JSON line.
CutFrame(head, tail) ==
    << Banner \o <<OpenMarker, Ws, head>>, <<tail, Ws, CloseMarker, Ws>> >>

\* What the engine running the operations script writes: the banner and
\* the one framed block of _output_result, then quit(0).  The pipe hands
\* the bytes over in chunks that end where a write or a read happened to
\* end: between lines, between two characters, or inside a character.
DispatcherOutputs ==
    {Process(<<Banner, Frame(r)>>, <<>>, ExitCode(0)) : r \in DispatcherRecords}
    \cup {Process(<<Banner \o Frame(FailRecord)>>, << <<Text, Ws>> >>, ExitCode(0)),
          Process(CutFrame(JsonHead(NonAsciiRecord), JsonTail), <<>>, ExitCode(0)),
          Process(CutFrame(BytesHead(NonAsciiRecord), BytesTail), <<>>, ExitCode(0))}

NoProcess == Process(<<>>, <<>>, [none |-> TRUE])
Pending == [state |-> "pending"]
NoPromise == [state |-> "none"]
SpawnError == <<[t |-> "spawn ENOENT"]>>
SpawnThrown == <<[t |-> "spawn E2BIG"]>>

VARIABLES
    host_pc,        \* where each call of execute / executeRaw is
    method,         \* which of the two methods the call is of
    proc,           \* the call's child process: what it has yet to write
    written,        \* what the call's child process has written so far
    host_stdout,    \* let stdout: the chunks the call has received
    host_stderr,    \* let stderr
    promise,        \* the promise the call returned
    resolve_calls,  \* how many times the call's resolve was called
    spawned         \* the calls of spawn made so far, by the call that made them

hvars == <<host_pc, method, proc, written, host_stdout, host_stderr, promise,
           resolve_calls, spawned>>

HostInit ==
    /\ host_pc = [c \in Calls |-> "idle"]
    /\ method = [c \in Calls |-> "execute"]
    /\ proc = [c \in Calls |-> NoProcess]
    /\ written = [c \in Calls |-> [out |-> <<>>, err |-> <<>>]]
    /\ host_stdout = [c \in Calls |-> <<>>]
    /\ host_stderr = [c \in Calls |-> <<>>]
    /\ promise = [c \in Calls |-> NoPromise]
    /\ resolve_calls = [c \in Calls |-> 0]
    /\ spawned = <<>>

\* ---------------------------------------------------------- value converter
\* _convert_property_value applied to a value, and to what it returned.
Str_(text) == [k |-> "str", s |-> text]

ConvTypes == {"Vector2", "Vector3", "Color", "Rect2"}

Components(type) ==
    CASE type = "Vector2" -> {"x", "y"}
      [] type = "Vector3" -> {"x", "y", "z"}
      [] type = "Color" -> {"r", "g", "b", "a"}
      [] type = "Rect2" -> {"x", "y", "w", "h"}
      [] OTHER -> {"x"}

ComponentValues == {0, 1, 5}

\* The dictionaries tagged type that give some of the components.
Tagged(type) ==
    UNION {{Dict(("_type" :> type) @@ f) : f \in [given -> ComponentValues]} :
            given \in SUBSET Components(type)}

\* Values the engine holds as native ones.
Natives ==
    {[k |-> "Vector2", x |-> 5, y |-> 0],
     [k |-> "Vector3", x |-> 0, y |-> 1, z |-> 5],
     [k |-> "Color", r |-> 1, g |-> 0, b |-> 0, a |-> 1],
     [k |-> "Rect2", x |-> 0, y |-> 0, w |-> 5, h |-> 5]}

ConvInputs ==
    UNION {Tagged(type) : type \in ConvTypes \cup {"Bogus"}}
    \cup {Null, Num(0), Num(5), Str_("Vector2"), Dict(<<>>), Dict([x |-> 5, y |-> 1]),
          Dict([_type |-> "vector2", x |-> 5])}
    \cup Natives

VARIABLES
    conv_pc,        \* how many times the converter has been applied
    value_in,       \* the value handed to the converter
    value_out,      \* what the converter returned for it
    value_out2      \* what the converter returned for value_out

cvars == <<conv_pc, value_in, value_out, value_out2>>

ConvIdle(v) ==
    /\ conv_pc = 0
    /\ value_in = v
    /\ value_out = Null
    /\ value_out2 = Null

vars == <<evars, hvars, cvars>>

\* ================================================================ actions
\* No engine process has been started.
NoneStarted ==
    /\ pc = [p \in AllProcs |-> "idle"]
    /\ args = [p \in AllProcs |-> NoArgs]
    /\ packed_scene = [p \in AllProcs |-> <<>>]
    /\ scene_root = [p \in AllProcs |-> NoTree]
    /\ target = [p \in AllProcs |-> 0]
    /\ live = [p \in AllProcs |-> {}]
    /\ new_packed_scene = [p \in AllProcs |-> <<>>]
    /\ result = [p \in AllProcs |-> NoResult]
    /\ stdout = [p \in AllProcs |-> <<>>]
    /\ exit_code = [p \in AllProcs |-> -1]
    /\ io = [p \in AllProcs |-> NoIO]
    /\ steps = [p \in AllProcs |-> <<>>]
    /\ fs0 = [p \in AllProcs |-> fs]

Init ==
    /\ fs = [f \in Paths |-> NoFile]
    /\ dirs = {"res://"}
    /\ NoneStarted
    /\ HostInit
    /\ ConvIdle(Null)

\* An engine process is started with an argument vector.
Started(p, a) ==
    /\ args' = [args EXCEPT ![p] = a]
    /\ pc' = [pc EXCEPT ![p] = "init"]
    /\ packed_scene' = [packed_scene EXCEPT ![p] = <<>>]
    /\ scene_root' = [scene_root EXCEPT ![p] = NoTree]
    /\ target' = [target EXCEPT ![p] = 0]
    /\ live' = [live EXCEPT ![p] = {}]
    /\ new_packed_scene' = [new_packed_scene EXCEPT ![p] = <<>>]
    /\ result' = [result EXCEPT ![p] = NoResult]
    /\ stdout' = [stdout EXCEPT ![p] = <<>>]
    /\ exit_code' = [exit_code EXCEPT ![p] = -1]
    /\ io' = [io EXCEPT ![p] = NoIO]
    /\ steps' = [steps EXCEPT ![p] = <<>>]
    /\ fs0' = [fs0 EXCEPT ![p] = fs]
    /\ UNCHANGED <<fs, dirs>>
    /\ UNCHANGED <<hvars, cvars>>

\* One process after the other: the next is started when the last is over.
Invoke(p) ==
    /\ pc[p] \in {"idle", "done", "aborted"}
    /\ \E a \in Requests :
        /\ GrowsScene(a) => HasRoom
        /\ (a.argc = 2 /\ a.operation = "add_animation_track") => HasTrackRoom
        /\ Started(p, a)

\* The handler returned res: the dispatcher's caller emits it next.
Returns(p, res, name, ok) ==
    /\ result' = [result EXCEPT ![p] = res]
    /\ steps' = [steps EXCEPT ![p] = Append(@, Step(name, ok))]
    /\ pc' = [pc EXCEPT ![p] = "emit"]

\* The handler goes on to the step at next.
GoesOn(p, next, name) ==
    /\ steps' = [steps EXCEPT ![p] = Append(@, Step(name, TRUE))]
    /\ pc' = [pc EXCEPT ![p] = next]
    /\ UNCHANGED result

\* _init with the no-operation path quitting without _output_error.
EngineInitQuitsSilently(p) ==
    /\ pc[p] = "init"
    /\ IF args[p].argc < 1
       THEN /\ exit_code' = [exit_code EXCEPT ![p] = 1]
            /\ pc' = [pc EXCEPT ![p] = "done"]
            /\ UNCHANGED stdout
       ELSE IF args[p].argc > 1 /\ args[p].payload.json = "invalid"
       THEN /\ stdout' = [stdout EXCEPT ![p] =
                    Append(@, Err(<<"Failed to parse parameters: ", "<parse error>">>))]
            /\ exit_code' = [exit_code EXCEPT ![p] = 1]
            /\ pc' = [pc EXCEPT ![p] = "done"]
       ELSE IF args[p].argc > 1 /\ args[p].payload.json # "object"
       THEN /\ pc' = [pc EXCEPT ![p] = "aborted"]
            /\ UNCHANGED <<stdout, exit_code>>
       ELSE /\ pc' = [pc EXCEPT ![p] = "dispatch"]
            /\ UNCHANGED <<stdout, exit_code>>
    /\ UNCHANGED <<fs, dirs, args, packed_scene, scene_root, target, live,
                   new_packed_scene, result, io, steps, fs0>>
    /\ UNCHANGED <<hvars, cvars>>

\* _init up to the call of the dispatcher: the argument checks.  A second
\* argument that parses to something other than a dictionary cannot be
\* passed on as params: the script stops there with a type error.
EngineInit(p) ==
    /\ pc[p] = "init"
    /\ IF args[p].argc < 1
       THEN /\ stdout' = [stdout EXCEPT ![p] = Append(@, Err(<<"No operation specified">>))]
            /\ exit_code' = [exit_code EXCEPT ![p] = 1]
            /\ pc' = [pc EXCEPT ![p] = "done"]
       ELSE IF args[p].argc > 1 /\ args[p].payload.json = "invalid"
       THEN /\ stdout' = [stdout EXCEPT ![p] =
                    Append(@, Err(<<"Failed to parse parameters: ", "<parse error>">>))]
            /\ exit_code' = [exit_code EXCEPT ![p] = 1]
            /\ pc' = [pc EXCEPT ![p] = "done"]
       ELSE IF args[p].argc > 1 /\ args[p].payload.json # "object"
       THEN /\ pc' = [pc EXCEPT ![p] = "aborted"]
            /\ UNCHANGED <<stdout, exit_code>>
       ELSE /\ pc' = [pc EXCEPT ![p] = "dispatch"]
            /\ UNCHANGED <<stdout, exit_code>>
    /\ UNCHANGED <<fs, dirs, args, packed_scene, scene_root, target, live,
                   new_packed_scene, result, io, steps, fs0>>
    /\ UNCHANGED <<hvars, cvars>>

\* _execute_operation: the match on the operation name.
ExecuteOperation(p) ==
    /\ pc[p] = "dispatch"
    /\ IF Operation(p) \in ProjectOps
       THEN /\ pc' = [pc EXCEPT ![p] = "project"]
            /\ UNCHANGED <<result, steps>>
       ELSE IF Operation(p) \in OperationNames
       THEN /\ pc' = [pc EXCEPT ![p] = "check"]
            /\ UNCHANGED <<result, steps>>
       ELSE /\ result' = [result EXCEPT ![p] = UnknownOperation(Operation(p))]
            /\ pc' = [pc EXCEPT ![p] = "emit"]
            /\ UNCHANGED steps
    /\ UNCHANGED <<fs, dirs, args, packed_scene, scene_root, target, live,
                   new_packed_scene, stdout, exit_code, io, fs0>>
    /\ UNCHANGED <<hvars, cvars>>

\* The required-parameter check of a handler.
ParamCheck(p) ==
    /\ pc[p] = "check"
    /\ LET r == Check(Operation(p), Params(p))
       IN  IF r.returned THEN Returns(p, r.result, "check", FALSE)
           ELSE GoesOn(p, AfterCheck(Operation(p)), "check")
    /\ UNCHANGED <<fs, dirs, args, packed_scene, scene_root, target, live,
                   new_packed_scene, stdout, exit_code, io, fs0>>
    /\ UNCHANGED <<hvars, cvars>>

\* Load reading one scene file whatever scene_path names.
LoadSharedScene(p) ==
    /\ pc[p] = "load"
    /\ io' = [io EXCEPT ![p].loads = @ + 1]
    /\ LET file == fs[ScenePath]
       IN  IF file.file # "scene"
           THEN /\ Returns(p, LoadFailed(Params(p)), "load", FALSE)
                /\ UNCHANGED packed_scene
           ELSE /\ packed_scene' = [packed_scene EXCEPT ![p] = file.state]
                /\ GoesOn(p, IF Operation(p) = "attach_script" THEN "load_script"
                             ELSE "instantiate", "load")
    /\ UNCHANGED <<fs, dirs, args, scene_root, target, live, new_packed_scene,
                   stdout, exit_code, fs0>>
    /\ UNCHANGED <<hvars, cvars>>

\* load(scene_path) as PackedScene
Load(p) ==
    /\ pc[p] = "load"
    /\ io' = [io EXCEPT ![p].loads = @ + 1]
    /\ LET file == fs[Params(p).scene_path]
       IN  IF file.file # "scene"
           THEN /\ Returns(p, LoadFailed(Params(p)), "load", FALSE)
                /\ UNCHANGED packed_scene
           ELSE /\ packed_scene' = [packed_scene EXCEPT ![p] = file.state]
                /\ GoesOn(p, IF Operation(p) = "attach_script" THEN "load_script"
                             ELSE "instantiate", "load")
    /\ UNCHANGED <<fs, dirs, args, scene_root, target, live, new_packed_scene,
                   stdout, exit_code, fs0>>
    /\ UNCHANGED <<hvars, cvars>>

\* load(script_path) as GDScript, in _attach_script
LoadScript(p) ==
    /\ pc[p] = "load_script"
    /\ io' = [io EXCEPT ![p].loads = @ + 1]
    /\ IF fs[Params(p).script_path].file # "script"
       THEN Returns(p, AttachScriptLoadFailed(Params(p)), "load_script", FALSE)
       ELSE GoesOn(p, "instantiate", "load_script")
    /\ UNCHANGED <<fs, dirs, args, packed_scene, scene_root, target, live,
                   new_packed_scene, stdout, exit_code, fs0>>
    /\ UNCHANGED <<hvars, cvars>>

\* packed_scene.instantiate().  A scene state with no node instantiates to
\* null, and the handler's next use of scene_root stops the script.
Instantiate(p) ==
    /\ pc[p] = "instantiate"
    /\ IF packed_scene[p] = <<>>
       THEN /\ pc' = [pc EXCEPT ![p] = "aborted"]
            /\ UNCHANGED <<scene_root, live, steps>>
       ELSE /\ scene_root' = [scene_root EXCEPT ![p] = packed_scene[p]]
            /\ live' = [live EXCEPT ![p] = @ \cup {"scene_root"}]
            /\ steps' = [steps EXCEPT ![p] = Append(@, Step("instantiate", TRUE))]
            /\ pc' = [pc EXCEPT ![p] = IF Operation(p) \in ReadOnlyOps
                                       THEN "serialize" ELSE "locate"]
    /\ UNCHANGED <<fs, dirs, args, packed_scene, target, new_packed_scene,
                   result, stdout, exit_code, io, fs0>>
    /\ UNCHANGED <<hvars, cvars>>

\* scene_root.queue_free()
QueueFree(p) == live' = [live EXCEPT ![p] = @ \ {"scene_root"}]

\* Locate with the failure paths returning without scene_root.queue_free().
LocateWithoutFree(p) ==
    /\ pc[p] = "locate"
    /\ LET r == LocateTarget(Operation(p), scene_root[p], Params(p))
       IN  IF r.returned
           THEN /\ Returns(p, r.result, "locate", FALSE)
                /\ UNCHANGED target
           ELSE /\ target' = [target EXCEPT ![p] = r.node]
                /\ GoesOn(p, "mutate", "locate")
    /\ UNCHANGED <<fs, dirs, args, packed_scene, scene_root, new_packed_scene,
                   stdout, exit_code, io, fs0, live>>
    /\ UNCHANGED <<hvars, cvars>>

\* The handler resolves the node it is to work on.
Locate(p) ==
    /\ pc[p] = "locate"
    /\ LET r == LocateTarget(Operation(p), scene_root[p], Params(p))
       IN  IF r.returned
           THEN /\ QueueFree(p)
                /\ Returns(p, r.result, "locate", FALSE)
                /\ UNCHANGED target
           ELSE /\ target' = [target EXCEPT ![p] = r.node]
                /\ GoesOn(p, "mutate", "locate")
                /\ UNCHANGED live
    /\ UNCHANGED <<fs, dirs, args, packed_scene, scene_root, new_packed_scene,
                   stdout, exit_code, io, fs0>>
    /\ UNCHANGED <<hvars, cvars>>

\* Mutate with the failure path missing its return: the handler goes on to
\* pack and save.
MutateWithoutReturn(p) ==
    /\ pc[p] = "mutate"
    /\ LET r == MutateTree(Operation(p), scene_root[p], target[p], Params(p))
       IN  /\ scene_root' = [scene_root EXCEPT ![p] =
                                IF r.returned THEN @ ELSE r.doc]
           /\ steps' = [steps EXCEPT ![p] = Append(@, Step("mutate", ~r.returned))]
           /\ pc' = [pc EXCEPT ![p] = "pack"]
    /\ UNCHANGED <<fs, dirs, args, packed_scene, target, new_packed_scene,
                   stdout, exit_code, io, fs0, live, result>>
    /\ UNCHANGED <<hvars, cvars>>

\* The handler changes the instantiated tree.
Mutate(p) ==
    /\ pc[p] = "mutate"
    /\ LET r == MutateTree(Operation(p), scene_root[p], target[p], Params(p))
       IN  IF r.returned
           THEN /\ QueueFree(p)
                /\ Returns(p, r.result, "mutate", FALSE)
                /\ UNCHANGED scene_root
           ELSE /\ scene_root' = [scene_root EXCEPT ![p] = r.doc]
                /\ GoesOn(p, "pack", "mutate")
                /\ UNCHANGED live
    /\ UNCHANGED <<fs, dirs, args, packed_scene, target, new_packed_scene,
                   stdout, exit_code, io, fs0>>
    /\ UNCHANGED <<hvars, cvars>>

\* _create_scene: the root node of the new scene.
CreateRoot(p) ==
    /\ pc[p] = "create_root"
    /\ LET r == CreateSceneRoot(Params(p))
       IN  IF r.returned
           THEN /\ Returns(p, r.result, "create", FALSE)
                /\ UNCHANGED <<scene_root, live>>
           ELSE /\ scene_root' = [scene_root EXCEPT ![p] = r.doc]
                /\ live' = [live EXCEPT ![p] = @ \cup {"scene_root"}]
                /\ GoesOn(p, "pack", "create")
    /\ UNCHANGED <<fs, dirs, args, packed_scene, target, new_packed_scene,
                   stdout, exit_code, io, fs0>>
    /\ UNCHANGED <<hvars, cvars>>

\* PackedScene.new().pack(scene_root): the engine packs the tree or fails
\* and leaves the scene state empty.  Only _create_scene looks at the
\* outcome.
Pack(p) ==
    /\ pc[p] = "pack"
    /\ \E ok \in BOOLEAN :
        /\ new_packed_scene' = [new_packed_scene EXCEPT ![p] =
                                    IF ok THEN SceneStateOf(scene_root[p]) ELSE <<>>]
        /\ IF ~ok /\ Operation(p) = "create_scene"
           THEN /\ QueueFree(p)
                /\ Returns(p, CreateScenePackFailed, "pack", FALSE)
           ELSE /\ steps' = [steps EXCEPT ![p] = Append(@, Step("pack", ok))]
                /\ pc' = [pc EXCEPT ![p] = "save"]
                /\ UNCHANGED <<live, result>>
    /\ UNCHANGED <<fs, dirs, args, packed_scene, scene_root, target,
                   stdout, exit_code, io, fs0>>
    /\ UNCHANGED <<hvars, cvars>>

\* The directory "Ensure directory exists" asks to be made for path.
MadeDirs(path) == IF GetBaseDir(path) # "" THEN {GetBaseDir(path)} ELSE {}

\* Save with the test of the save's outcome inverted.
SaveWithInvertedTest(p) ==
    /\ pc[p] = "save"
    /\ LET made == IF Operation(p) = "create_scene"
                   THEN MadeDirs(Params(p).scene_path) ELSE {}
       IN  /\ dirs' = dirs \cup made
           /\ io' = [io EXCEPT ![p].saves = @ + 1,
                               ![p].mkdirs = @ + Cardinality(made)]
    /\ QueueFree(p)
    /\ \E ok \in BOOLEAN :
        IF ok
        THEN /\ fs' = [fs EXCEPT ![Params(p).scene_path] =
                            SceneFile(new_packed_scene[p])]
             /\ Returns(p, SaveFailure(Operation(p), "<error code>"), "save", FALSE)
        ELSE /\ UNCHANGED fs
             /\ Returns(p, Success(Operation(p), Params(p)), "save", TRUE)
    /\ UNCHANGED <<args, packed_scene, scene_root, target, new_packed_scene,
                   stdout, exit_code, fs0>>
    /\ UNCHANGED <<hvars, cvars>>

\* Save with the call of ResourceSaver.save left out.
SaveSkipped(p) ==
    /\ pc[p] = "save"
    /\ QueueFree(p)
    /\ Returns(p, Success(Operation(p), Params(p)), "save", TRUE)
    /\ UNCHANGED <<fs, dirs, io, args, packed_scene, scene_root, target,
                   new_packed_scene, stdout, exit_code, fs0>>
    /\ UNCHANGED <<hvars, cvars>>

\* ResourceSaver.save(new_packed_scene, scene_path), then
\* scene_root.queue_free() and the handler's return.  The engine writes the
\* file or fails and leaves it as it was.
Save(p) ==
    /\ pc[p] = "save"
    /\ LET made == IF Operation(p) = "create_scene"
                   THEN MadeDirs(Params(p).scene_path) ELSE {}
       IN  /\ dirs' = dirs \cup made
           /\ io' = [io EXCEPT ![p].saves = @ + 1,
                               ![p].mkdirs = @ + Cardinality(made)]
    /\ QueueFree(p)
    /\ \E ok \in BOOLEAN :
        IF ok
        THEN /\ fs' = [fs EXCEPT ![Params(p).scene_path] =
                            SceneFile(new_packed_scene[p])]
             /\ Returns(p, Success(Operation(p), Params(p)), "save", TRUE)
        ELSE /\ UNCHANGED fs
             /\ Returns(p, SaveFailure(Operation(p), "<error code>"), "save", FALSE)
    /\ UNCHANGED <<args, packed_scene, scene_root, target, new_packed_scene,
                   stdout, exit_code, fs0>>
    /\ UNCHANGED <<hvars, cvars>>

\* Serialize followed by a save of the loaded scene.
SerializeAndSave(p) ==
    /\ pc[p] = "serialize"
    /\ QueueFree(p)
    /\ fs' = [fs EXCEPT ![Params(p).scene_path] =
                SceneFile(SceneStateOf(scene_root[p]))]
    /\ io' = [io EXCEPT ![p].saves = @ + 1]
    /\ Returns(p, IF Operation(p) = "read_scene"
                  THEN ReadSceneSuccess(scene_root[p], Params(p))
                  ELSE ListNodesSuccess(scene_root[p], Params(p)),
               "serialize", TRUE)
    /\ UNCHANGED <<dirs, args, packed_scene, scene_root, target,
                   new_packed_scene, stdout, exit_code, fs0>>
    /\ UNCHANGED <<hvars, cvars>>

\* _read_scene / _list_nodes after the load: serialise, free, return.
Serialize(p) ==
    /\ pc[p] = "serialize"
    /\ QueueFree(p)
    /\ Returns(p, IF Operation(p) = "read_scene"
                  THEN ReadSceneSuccess(scene_root[p], Params(p))
                  ELSE ListNodesSuccess(scene_root[p], Params(p)),
               "serialize", TRUE)
    /\ UNCHANGED <<fs, dirs, args, packed_scene, scene_root, target,
                   new_packed_scene, stdout, exit_code, io, fs0>>
    /\ UNCHANGED <<hvars, cvars>>

\* _create_script after its check: make the directory, open the file for
\* writing (the engine opens it or fails), store the text.
WriteScript(p) ==
    /\ pc[p] = "write_script"
    /\ dirs' = dirs \cup MadeDirs(Params(p).script_path)
    /\ \E ok \in BOOLEAN :
        IF ok
        THEN /\ fs' = [fs EXCEPT ![Params(p).script_path] =
                            ScriptFile(CreateScriptContent(Params(p)))]
             /\ io' = [io EXCEPT ![p].writes = @ + 1,
                          ![p].mkdirs = @ + Cardinality(MadeDirs(Params(p).script_path))]
             /\ Returns(p, CreateScriptSuccess(Params(p)), "write", TRUE)
        ELSE /\ UNCHANGED fs
             /\ io' = [io EXCEPT
                          ![p].mkdirs = @ + Cardinality(MadeDirs(Params(p).script_path))]
             /\ Returns(p, CreateScriptOpenFailed, "write", FALSE)
    /\ UNCHANGED <<args, packed_scene, scene_root, target, live,
                   new_packed_scene, stdout, exit_code, fs0>>
    /\ UNCHANGED <<hvars, cvars>>

\* _create_resource after its check: build the resource, make the
\* directory, save (the engine writes the file or fails).
CreateResource(p) ==
    /\ pc[p] = "create_resource"
    /\ LET r == CreateResourceBuild(Params(p))
           made == MadeDirs(Params(p).resource_path)
       IN  IF r.returned
           THEN /\ Returns(p, r.result, "create", FALSE)
                /\ UNCHANGED <<fs, dirs, io>>
           ELSE /\ dirs' = dirs \cup made
                /\ io' = [io EXCEPT ![p].saves = @ + 1,
                                    ![p].mkdirs = @ + Cardinality(made)]
                /\ \E ok \in BOOLEAN :
                    IF ok
                    THEN /\ fs' = [fs EXCEPT ![Params(p).resource_path] =
                                        ResourceFile(r.doc)]
                         /\ Returns(p, CreateResourceSuccess(Params(p)), "save", TRUE)
                    ELSE /\ UNCHANGED fs
                         /\ Returns(p, CreateResourceSaveFailed, "save", FALSE)
    /\ UNCHANGED <<args, packed_scene, scene_root, target, live,
                   new_packed_scene, stdout, exit_code, fs0>>
    /\ UNCHANGED <<hvars, cvars>>

\* The files under res:// whose kind is kind, in directory order.
ScanForFiles(kind) ==
    LET order == <<ResourcePath, ScenePath, ScriptPath>>
    IN  SelectSeq(order, LAMBDA f : fs[f].file = kind)

\* _get_project_info (project.godot loads or does not), _list_scenes,
\* _list_scripts.
ProjectOperation(p) ==
    /\ pc[p] = "project"
    /\ \E ok \in BOOLEAN :
        CASE Operation(p) = "get_project_info" ->
                Returns(p, IF ok THEN GetProjectInfoSuccess ELSE GetProjectInfoFailed,
                        "project", ok)
          [] Operation(p) = "list_scenes" ->
                Returns(p, ListScenesSuccess(ScanForFiles("scene")), "project", TRUE)
          [] Operation(p) = "list_scripts" ->
                Returns(p, ListScriptsSuccess(ScanForFiles("script")), "project", TRUE)
    /\ UNCHANGED <<fs, dirs, args, packed_scene, scene_root, target, live,
                   new_packed_scene, stdout, exit_code, io, fs0>>
    /\ UNCHANGED <<hvars, cvars>>

\* OutputResult with the exit code following the result's success.
OutputResultExitsBySuccess(p) ==
    /\ pc[p] = "emit"
    /\ stdout' = [stdout EXCEPT ![p] = Append(@, result[p])]
    /\ exit_code' = [exit_code EXCEPT ![p] = IF result[p].success THEN 0 ELSE 1]
    /\ steps' = [steps EXCEPT ![p] = Append(@, Step("emit", TRUE))]
    /\ pc' = [pc EXCEPT ![p] = "done"]
    /\ UNCHANGED <<fs, dirs, args, packed_scene, scene_root, target, live,
                   new_packed_scene, result, io, fs0>>
    /\ UNCHANGED <<hvars, cvars>>

\* _output_result: one framed block on standard output; then quit(0).
OutputResult(p) ==
    /\ pc[p] = "emit"
    /\ stdout' = [stdout EXCEPT ![p] = Append(@, result[p])]
    /\ exit_code' = [exit_code EXCEPT ![p] = 0]
    /\ steps' = [steps EXCEPT ![p] = Append(@, Step("emit", TRUE))]
    /\ pc' = [pc EXCEPT ![p] = "done"]
    /\ UNCHANGED <<fs, dirs, args, packed_scene, scene_root, target, live,
                   new_packed_scene, result, io, fs0>>
    /\ UNCHANGED <<hvars, cvars>>

Next ==
    \E p \in Procs :
        \/ Invoke(p)
        \/ EngineInit(p)
        \/ ExecuteOperation(p)
        \/ ParamCheck(p)
        \/ Load(p)
        \/ LoadScript(p)
        \/ Instantiate(p)
        \/ Locate(p)
        \/ Mutate(p)
        \/ CreateRoot(p)
        \/ Pack(p)
        \/ Save(p)
        \/ Serialize(p)
        \/ WriteScript(p)
        \/ CreateResource(p)
        \/ ProjectOperation(p)
        \/ OutputResult(p)

Spec == Init /\ [][Next]_vars

\* ============================================================ host actions
\* resolve(value) of a promise that takes the value of the latest call.
ResolveLatest(c, value) ==
    /\ promise' = [promise EXCEPT ![c] = [state |-> "resolved", value |-> value]]
    /\ resolve_calls' = [resolve_calls EXCEPT ![c] = @ + 1]

\* resolve(value): settles the promise the first time it is called.
Resolve(c, value) ==
    /\ promise' = [promise EXCEPT ![c] =
                      IF @ = Pending THEN [state |-> "resolved", value |-> value]
                      ELSE @]
    /\ resolve_calls' = [resolve_calls EXCEPT ![c] = @ + 1]

\* A caller calls execute or executeRaw: the promise is created and its
\* executor starts with empty stdout and stderr.
Execute(c) ==
    /\ host_pc[c] = "idle"
    /\ \E m \in {"execute", "executeRaw"} : method' = [method EXCEPT ![c] = m]
    /\ promise' = [promise EXCEPT ![c] = Pending]
    /\ host_stdout' = [host_stdout EXCEPT ![c] = <<>>]
    /\ host_stderr' = [host_stderr EXCEPT ![c] = <<>>]
    /\ host_pc' = [host_pc EXCEPT ![c] = "spawn"]
    /\ UNCHANGED <<proc, written, resolve_calls, spawned>>
    /\ UNCHANGED <<evars, cvars>>

\* spawn(godotPath, args, options).  It returns a child that runs, or a
\* child whose "error" event is due (the program cannot be started), or it
\* throws (the arguments cannot be passed to a process at all), which
\* rejects the promise whose executor called it.
Spawn(c) ==
    /\ host_pc[c] = "spawn"
    /\ \E outcome \in {"runs", "error", "throws"} :
        CASE outcome = "runs" ->
                /\ \E o \in IF method[c] = "execute" THEN ProcessOutputs
                              ELSE RawOutputs :
                        proc' = [proc EXCEPT ![c] = o]
                /\ spawned' = Append(spawned, c)
                /\ host_pc' = [host_pc EXCEPT ![c] = "running"]
                /\ UNCHANGED promise
          [] outcome = "error" ->
                /\ proc' = [proc EXCEPT ![c] = Process(<<>>, <<>>, ExitCode(-2))]
                /\ spawned' = Append(spawned, c)
                /\ host_pc' = [host_pc EXCEPT ![c] = "error"]
                /\ UNCHANGED promise
          [] outcome = "throws" ->
                /\ promise' = [promise EXCEPT ![c] =
                                  [state |-> "rejected", reason |-> SpawnThrown]]
                /\ spawned' = Append(spawned, c)
                /\ host_pc' = [host_pc EXCEPT ![c] = "thrown"]
                /\ UNCHANGED proc
    /\ written' = [written EXCEPT ![c] = [out |-> <<>>, err |-> <<>>]]
    /\ UNCHANGED <<method, host_stdout, host_stderr, resolve_calls>>
    /\ UNCHANGED <<evars, cvars>>

\* The stdout handler appending to a buffer shared by all calls.
StdoutDataShared(c) ==
    /\ host_pc[c] = "running"
    /\ proc[c].out # <<>>
    /\ host_stdout' = [host_stdout EXCEPT ![1] = Append(@, DataToString(Head(proc[c].out)))]
    /\ written' = [written EXCEPT ![c].out = Append(@, Head(proc[c].out))]
    /\ proc' = [proc EXCEPT ![c].out = Tail(@)]
    /\ UNCHANGED <<host_pc, method, host_stderr, promise, resolve_calls, spawned>>
    /\ UNCHANGED <<evars, cvars>>

\* proc.stdout.on("data"): stdout += data.toString()
StdoutData(c) ==
    /\ host_pc[c] = "running"
    /\ proc[c].out # <<>>
    /\ host_stdout' = [host_stdout EXCEPT ![c] = Append(@, DataToString(Head(proc[c].out)))]
    /\ written' = [written EXCEPT ![c].out = Append(@, Head(proc[c].out))]
    /\ proc' = [proc EXCEPT ![c].out = Tail(@)]
    /\ UNCHANGED <<host_pc, method, host_stderr, promise, resolve_calls, spawned>>
    /\ UNCHANGED <<evars, cvars>>

\* proc.stderr.on("data"): stderr += data.toString()
StderrData(c) ==
    /\ host_pc[c] = "running"
    /\ proc[c].err # <<>>
    /\ host_stderr' = [host_stderr EXCEPT ![c] = Append(@, DataToString(Head(proc[c].err)))]
    /\ written' = [written EXCEPT ![c].err = Append(@, Head(proc[c].err))]
    /\ proc' = [proc EXCEPT ![c].err = Tail(@)]
    /\ UNCHANGED <<host_pc, method, host_stdout, promise, resolve_calls, spawned>>
    /\ UNCHANGED <<evars, cvars>>

\* proc.on("error"): the child could not be started.  Its "close" follows,
\* or has come before it.
ErrorEvent(c) ==
    /\ host_pc[c] \in {"error", "error_due"}
    /\ Resolve(c, OnError(SpawnError))
    /\ host_pc' = [host_pc EXCEPT ![c] =
                      IF host_pc[c] = "error" THEN "running" ELSE "errored"]
    /\ UNCHANGED <<method, proc, written, host_stdout, host_stderr, spawned>>
    /\ UNCHANGED <<evars, cvars>>

\* The close handler attached to "exit" instead: it may run while chunks of
\* the process's output are still to be received.
CloseOnExit(c) ==
    /\ host_pc[c] = "running"
    /\ Resolve(c, IF method[c] = "execute"
                  THEN OnClose(Flatten(host_stdout[c]), Flatten(host_stderr[c]),
                               proc[c].code)
                  ELSE OnCloseRaw(Flatten(host_stdout[c]), Flatten(host_stderr[c]),
                                  proc[c].code))
    /\ host_pc' = [host_pc EXCEPT ![c] = "closed"]
    /\ UNCHANGED <<method, proc, written, host_stdout, host_stderr, spawned>>
    /\ UNCHANGED <<evars, cvars>>

\* proc.on("close"): the process has ended and its streams are closed, so
\* every chunk it wrote has been received.  Of a child that could not be
\* started the event comes after the "error" event or before it.
Close(c) ==
    /\ host_pc[c] \in {"running", "error"}
    /\ proc[c].out = <<>> /\ proc[c].err = <<>>
    /\ Resolve(c, IF method[c] = "execute"
                  THEN OnClose(Flatten(host_stdout[c]), Flatten(host_stderr[c]),
                               proc[c].code)
                  ELSE OnCloseRaw(Flatten(host_stdout[c]), Flatten(host_stderr[c]),
                                  proc[c].code))
    /\ host_pc' = [host_pc EXCEPT ![c] =
                      IF host_pc[c] = "error" THEN "error_due" ELSE "closed"]
    /\ UNCHANGED <<method, proc, written, host_stdout, host_stderr, spawned>>
    /\ UNCHANGED <<evars, cvars>>

HostNext ==
    \E c \in Calls :
        \/ Execute(c)
        \/ Spawn(c)
        \/ StdoutData(c)
        \/ StderrData(c)
        \/ ErrorEvent(c)
        \/ Close(c)

HostSpec == Init /\ [][HostNext]_vars

\* --------------------------------------------- the engine behind execute
\* spawn of the engine with the operations script, which execute alone
\* passes: the child runs the dispatcher, which emits one record.
SpawnDispatcher(c) ==
    /\ host_pc[c] = "spawn" /\ method[c] = "execute"
    /\ \E o \in DispatcherOutputs : proc' = [proc EXCEPT ![c] = o]
    /\ spawned' = Append(spawned, c)
    /\ host_pc' = [host_pc EXCEPT ![c] = "running"]
    /\ written' = [written EXCEPT ![c] = [out |-> <<>>, err |-> <<>>]]
    /\ UNCHANGED <<method, host_stdout, host_stderr, promise, resolve_calls>>
    /\ UNCHANGED <<evars, cvars>>

BoundaryNext ==
    \E c \in Calls :
        \/ Execute(c)
        \/ SpawnDispatcher(c)
        \/ StdoutData(c)
        \/ StderrData(c)
        \/ Close(c)

BoundarySpec == Init /\ [][BoundaryNext]_vars

\* ------------------------------------------------ launchEditor, runProject
LaunchMethods == {"launchEditor", "runProject"}

\* The result both methods resolve with.
Launched(m) ==
    ExecutionResult(TRUE,
                    <<[t |-> IF m = "launchEditor"
                             THEN "Launched Godot editor for project at "
                             ELSE "Running project at "],
                      [t |-> "projectPath"]>>,
                    Undefined)

\* launchEditor / runProject: spawn detached with stdio ignored, unref, and
\* resolve at once.  No handler is attached to the child, so the promise is
\* resolved with success also when the child's "error" event is due.
Launch(c) ==
    /\ host_pc[c] = "idle"
    /\ \E m \in LaunchMethods, outcome \in {"runs", "error", "throws"} :
        /\ method' = [method EXCEPT ![c] = m]
        /\ IF outcome = "throws"
           THEN /\ promise' = [promise EXCEPT ![c] =
                                  [state |-> "rejected", reason |-> SpawnThrown]]
                /\ host_pc' = [host_pc EXCEPT ![c] = "thrown"]
                /\ UNCHANGED <<proc, resolve_calls>>
           ELSE /\ promise' = [promise EXCEPT ![c] =
                                  [state |-> "resolved", value |-> Launched(m)]]
                /\ resolve_calls' = [resolve_calls EXCEPT ![c] = @ + 1]
                /\ proc' = [proc EXCEPT ![c] =
                              Process(<<>>, <<>>, [running |-> outcome = "runs"])]
                /\ host_pc' = [host_pc EXCEPT ![c] =
                                  IF outcome = "runs" THEN "launched"
                                  ELSE "launch_error"]
    /\ spawned' = Append(spawned, c)
    /\ UNCHANGED <<written, host_stdout, host_stderr>>
    /\ UNCHANGED <<evars, cvars>>

\* The launched process ends, at any time and in any way; nobody listens.
LaunchedExit(c) ==
    /\ host_pc[c] = "launched"
    /\ \E code \in {ExitCode(0), ExitCode(1), Signalled} :
        proc' = [proc EXCEPT ![c].code = code]
    /\ host_pc' = [host_pc EXCEPT ![c] = "exited"]
    /\ UNCHANGED <<method, written, host_stdout, host_stderr, promise,
                   resolve_calls, spawned>>
    /\ UNCHANGED <<evars, cvars>>

\* The "error" event of a child that could not be started, with no listener:
\* the event loop throws it as an uncaught exception.
UnhandledError(c) ==
    /\ host_pc[c] = "launch_error"
    /\ host_pc' = [host_pc EXCEPT ![c] = "uncaught"]
    /\ UNCHANGED <<method, proc, written, host_stdout, host_stderr, promise,
                   resolve_calls, spawned>>
    /\ UNCHANGED <<evars, cvars>>

LaunchNext ==
    \E c \in Calls :
        \/ Launch(c)
        \/ LaunchedExit(c)
        \/ UnhandledError(c)

LaunchSpec == Init /\ [][LaunchNext]_vars

\* ===================================================== concurrent processes
\* Two tool calls in flight: each engine process is started once, on one of
\* two scenes that both hold a root and one child, and their steps
\* interleave freely.
ConcDoc == AddChild(<<NewNode("Root", "Node2D")>>, 1, NewNode("A", "Node2D"))

ConcPaths == {ScenePath, OtherScenePath}

ConcRequests ==
    {Object("add_node", [scene_path |-> s, node_type |-> "Node2D", node_name |-> "X"]) :
        s \in ConcPaths}
    \cup {Object("add_node", [scene_path |-> s, parent_path |-> <<"A">>,
                              node_type |-> "Node2D", node_name |-> "Y"]) :
        s \in ConcPaths}
    \cup {Object("add_node", [scene_path |-> s, node_type |-> "Node2D", node_name |-> "A"]) :
        s \in ConcPaths}
    \cup {Object("modify_node", [scene_path |-> s, node_path |-> Dot,
                                 properties |-> <<<<"rotation", Num(1)>>>>]) :
        s \in ConcPaths}
    \cup {Object("remove_node", [scene_path |-> s, node_path |-> <<"A">>]) :
        s \in ConcPaths}

ConcInit ==
    /\ fs = [f \in Paths |-> IF f \in ConcPaths THEN SceneFile(ConcDoc) ELSE NoFile]
    /\ dirs = {"res://"}
    /\ NoneStarted
    /\ HostInit
    /\ ConvIdle(Null)

ConcInvoke(p) ==
    /\ pc[p] = "idle"
    /\ \E a \in ConcRequests : Started(p, a)

ConcNext ==
    \E p \in AllProcs :
        \/ ConcInvoke(p)
        \/ EngineInit(p)
        \/ ExecuteOperation(p)
        \/ ParamCheck(p)
        \/ Load(p)
        \/ Instantiate(p)
        \/ Locate(p)
        \/ Mutate(p)
        \/ Pack(p)
        \/ Save(p)
        \/ OutputResult(p)

ConcSpec == ConcInit /\ [][ConcNext]_vars

\* ============================================================== round trip
\* create_scene by one process and, once it has returned success, read_scene
\* of the same scene_path by the next.
RootTypes == CuratedNodeTypes \cup ClassDBNodeClasses

RootNames == {"Root", "Main", "My/Root"}

RoundTripRequests ==
    {Object("create_scene", [scene_path |-> ScenePath, root_type |-> t, root_name |-> n]) :
        t \in RootTypes, n \in RootNames}
    \cup {Object("create_scene", [scene_path |-> ScenePath])}

CreateFirst(p) ==
    /\ p = 1
    /\ pc[p] = "idle"
    /\ \E a \in RoundTripRequests : Started(p, a)

ReadBack(p) ==
    /\ p = 2
    /\ pc[p] = "idle"
    /\ pc[1] = "done"
    /\ result[1].success
    /\ Started(p, Object("read_scene", [scene_path |-> Params(1).scene_path]))

RoundTripNext ==
    \E p \in AllProcs :
        \/ CreateFirst(p)
        \/ ReadBack(p)
        \/ EngineInit(p)
        \/ ExecuteOperation(p)
        \/ ParamCheck(p)
        \/ CreateRoot(p)
        \/ Pack(p)
        \/ Save(p)
        \/ Load(p)
        \/ Instantiate(p)
        \/ Serialize(p)
        \/ OutputResult(p)

RoundTripSpec == Init /\ [][RoundTripNext]_vars

\* ========================================================= value converter
ConvInit ==
    /\ fs = [f \in Paths |-> NoFile]
    /\ dirs = {"res://"}
    /\ NoneStarted
    /\ HostInit
    /\ \E v \in ConvInputs : ConvIdle(v)

\* _convert_property_value(value)
Convert ==
    /\ conv_pc = 0
    /\ value_out' = ConvertPropertyValue(value_in)
    /\ conv_pc' = 1
    /\ UNCHANGED <<value_in, value_out2>>
    /\ UNCHANGED <<evars, hvars>>

\* _convert_property_value applied to the value it returned
ConvertAgain ==
    /\ conv_pc = 1
    /\ value_out2' = ConvertPropertyValue(value_out)
    /\ conv_pc' = 2
    /\ UNCHANGED <<value_in, value_out>>
    /\ UNCHANGED <<evars, hvars>>

ConvNext == Convert \/ ConvertAgain

ConvSpec == ConvInit /\ [][ConvNext]_vars

\* ================================================================= claims
\* The dispatcher has returned a result for the invocation of p.
Returned(p) == pc[p] \in {"emit", "done"} /\ result[p] # NoResult

\* The steps of the invocation of p that failed.
FailedSteps(p) == {i \in 1..Len(steps[p]) : ~steps[p][i].ok}

HasStep(p, name) == \E i \in 1..Len(steps[p]) : steps[p][i].step = name

StepFailed(p, name) ==
    \E i \in 1..Len(steps[p]) : steps[p][i].step = name /\ ~steps[p][i].ok

\* C1: for an operation name outside the catalog the dispatcher returns
\* exactly {success: false, error: "Unknown operation: <name>"} and the
\* invocation loads nothing, saves nothing and writes no file.
C1_UnknownOperation ==
    \A p \in Procs :
        (Returned(p) /\ Operation(p) \notin OperationNames) =>
            /\ result[p] = [success |-> FALSE,
                            error |-> <<"Unknown operation: ", Operation(p)>>]
            /\ io[p] = NoIO
            /\ fs = fs0[p]
            /\ steps[p] \in {<<>>, <<Step("emit", TRUE)>>}

C1_Witness ==
    \E p \in Procs :
        /\ pc[p] = "done" /\ result[p] # NoResult
        /\ Operation(p) = "bogus"
        /\ fs[ScenePath].file = "scene"

\* Operations whose successful result carries data and no message.
MessagelessOps == ReadOnlyOps \cup ProjectOps

Has(r, field) == field \in DOMAIN r

\* C2 as stated: every result record returned by the dispatcher carries
\* success and exactly one of message / error, and a failure carries error.
C2_ExactlyOneOfMessageAndError ==
    \A p \in Procs :
        Returned(p) =>
            /\ Has(result[p], "success")
            /\ Has(result[p], "message") # Has(result[p], "error")
            /\ (~result[p].success => Has(result[p], "error"))

\* C2 amended: every result record returned by the dispatcher carries
\* success and never both message and error; success is false exactly when
\* error is set (to a non-empty text); a successful read_scene, list_nodes,
\* get_project_info, list_scenes or list_scripts record carries neither
\* message nor error, and every other successful record carries a non-empty
\* message.
C2_MessageOrErrorOrData ==
    \A p \in Procs :
        Returned(p) =>
            /\ Has(result[p], "success")
            /\ ~(Has(result[p], "message") /\ Has(result[p], "error"))
            /\ (~result[p].success <=> Has(result[p], "error"))
            /\ (Has(result[p], "error") => result[p].error # <<>>)
            /\ (Has(result[p], "message") => result[p].message # <<>>)
            /\ (Has(result[p], "message") <=>
                    (result[p].success /\ Operation(p) \notin MessagelessOps))

C2_Witness ==
    \E p \in Procs :
        /\ pc[p] = "done" /\ result[p] # NoResult
        /\ Operation(p) = "read_scene"
        /\ result[p].success
        /\ ~Has(result[p], "message") /\ ~Has(result[p], "error")

\* C3: when the script of an engine invocation has stopped, exactly one
\* framed result block has been written to standard output, and never more
\* than one is written.
C3_ExactlyOneBlock ==
    \A p \in Procs :
        /\ Len(stdout[p]) <= 1
        /\ (pc[p] \in {"done", "aborted"} => Len(stdout[p]) = 1)

\* The place of a step in the order of a handler.
Rank(name) ==
    CASE name = "check" -> 1
      [] name = "load" -> 2
      [] name = "load_script" -> 3
      [] name = "instantiate" -> 4
      [] name = "locate" -> 5
      [] name = "mutate" -> 6
      [] name = "pack" -> 7
      [] name = "save" -> 8
      [] name = "emit" -> 9
      [] OTHER -> 0

\* The steps whose failure a handler looks for.
CheckedSteps == {"check", "load", "load_script", "locate", "mutate", "save"}

AllOk(p, names) ==
    \A n \in names : HasStep(p, n) /\ ~StepFailed(p, n)

C5_AllOrNothing ==
    \A p \in Procs :
        (Returned(p) /\ ~result[p].success) => fs = fs0[p]

C5_Witness ==
    \E p \in Procs :
        /\ pc[p] = "done" /\ result[p] # NoResult
        /\ Operation(p) = "remove_node"
        /\ StepFailed(p, "save")
        /\ new_packed_scene[p] # <<>>
        /\ SceneFile(new_packed_scene[p]) # fs[ScenePath]

\* C6: an invocation of a document-mutating or document-producing
\* operation that returns success = true has saved the target document
\* exactly once, and no invocation of any operation saves more than once.
C6_ExactlyOneSave ==
    \A p \in Procs :
        /\ io[p].saves <= 1
        /\ (Returned(p) /\ result[p].success
            /\ Operation(p) \in MutatingOps \cup {"create_scene"}) =>
                /\ io[p].saves = 1
                /\ fs[Params(p).scene_path] = SceneFile(new_packed_scene[p])

C6_Witness ==
    \E p \in Procs :
        /\ pc[p] = "done" /\ result[p] # NoResult
        /\ Operation(p) = "create_animation"
        /\ result[p].success
        /\ fs[ScenePath] # fs0[p][ScenePath]

\* C7: when a result is emitted, on success and on failure alike, every
\* tree instantiated during the invocation has been freed.
C7_TreesFreed ==
    \A p \in Procs : pc[p] \in {"emit", "done"} => live[p] = {}

C7_Witness ==
    \E p \in Procs :
        /\ pc[p] = "done" /\ result[p] # NoResult
        /\ HasStep(p, "instantiate")
        /\ StepFailed(p, "locate")
        /\ ~result[p].success

\* The step at which the invocation of p failed is the save.
FailedAtSave(p) == StepFailed(p, "save")

\* C8: in a document-mutating operation (and in create_scene) the error
\* returned is the operation's save-failure text exactly when the step that
\* failed is the save: no load, locate or mutate failure returns it.
C8_SaveErrorDistinct ==
    \A p \in Procs :
        (Returned(p) /\ ~result[p].success
         /\ Operation(p) \in MutatingOps \cup {"create_scene"}) =>
            (result[p].error = SaveFailure(Operation(p), "<error code>").error
                <=> FailedAtSave(p))

C8_Witness ==
    \E p \in Procs :
        /\ pc[p] = "done" /\ result[p] # NoResult
        /\ Operation(p) = "add_node"
        /\ FailedAtSave(p)
        /\ result[p].error = <<"Failed to save scene">>

\* C9: read_scene and list_nodes never save: whatever the outcome, the
\* files on disk are unchanged and the loaded tree has been freed when the
\* result is emitted.
C9_ReadOnly ==
    \A p \in Procs :
        (pc[p] # "idle" /\ args[p].argc >= 1 /\ Operation(p) \in ReadOnlyOps) =>
            /\ io[p].saves = 0 /\ io[p].writes = 0
            /\ fs = fs0[p]
            /\ pc[p] \in {"emit", "done"} => live[p] = {}

C9_Witness ==
    \E p \in Procs :
        /\ pc[p] = "done" /\ result[p] # NoResult
        /\ Operation(p) = "list_nodes"
        /\ result[p].success
        /\ Len(result[p].nodes) = 2

\* The document at a scene path has a root.
HasRoot(file) == file.file = "scene" => (file.state # <<>> /\ file.state[1].parent = 0)

\* C10: remove_node on the path "." fails with "Cannot remove root node"
\* (not the node-not-found failure), saves nothing and leaves the files
\* unchanged; and every saved document has its root.
C10_RootProtection ==
    /\ \A p \in Procs :
        (Returned(p) /\ Operation(p) = "remove_node"
         /\ DictGet(Params(p), "node_path", <<>>) = Dot
         /\ HasStep(p, "locate")) =>
            /\ result[p] = Err(<<"Cannot remove root node">>)
            /\ io[p].saves = 0
            /\ fs = fs0[p]
    /\ \A f \in Paths : HasRoot(fs[f])

\* The keys of a properties record that the class does not expose.
UnknownKeys(class, properties) ==
    {i \in 1..Len(properties) : PropertyType(class, properties[i][1]) = "none"}

\* C11: add_node given properties with a key the new node's type does not
\* expose returns success, adds the node, applies every exposed key and
\* leaves the unknown key unapplied.
C11_AddNodeTolerance ==
    \A p \in Procs :
        LET properties == DictGet(Params(p), "properties", <<>>)
            class == CreateNodeOfType(DictGet(Params(p), "node_type", "Node"))
            doc == scene_root[p]
        IN  (Returned(p) /\ Operation(p) = "add_node" /\ HasStep(p, "mutate")
             /\ ~StepFailed(p, "mutate") /\ ~StepFailed(p, "save")
             /\ UnknownKeys(class, properties) # {}) =>
                /\ result[p].success
                /\ Len(doc) = Len(packed_scene[p]) + 1
                /\ doc[Len(doc)].type = class
                /\ \A i \in 1..Len(properties) :
                      properties[i][1] \in DOMAIN doc[Len(doc)].props
                          <=> i \notin UnknownKeys(class, properties)

\* C12: modify_node given properties with a key the target node's type does
\* not expose returns success = false.
C12_ModifyNodeUnknownKeyFails ==
    \A p \in Procs :
        LET properties == DictGet(Params(p), "properties", <<>>)
        IN  (Returned(p) /\ Operation(p) = "modify_node" /\ HasStep(p, "mutate")
             /\ UnknownKeys(scene_root[p][target[p]].type, properties) # {}) =>
                ~result[p].success

\* The parameters the operation catalog lists as required.
RequiredParams(op) ==
    CASE op = "create_scene" -> {"scene_path"}
      [] op = "add_node" -> {"scene_path", "node_type", "node_name"}
      [] op = "remove_node" -> {"scene_path", "node_path"}
      [] op = "modify_node" -> {"scene_path", "node_path", "properties"}
      [] op \in ReadOnlyOps -> {"scene_path"}
      [] op = "create_script" -> {"script_path"}
      [] op = "attach_script" -> {"scene_path", "script_path"}
      [] op = "create_animation" -> {"scene_path"}
      [] op = "add_animation_track" ->
            {"scene_path", "animation_player_path", "animation_name",
             "target_node_path", "property", "keyframes"}
      [] op = "create_resource" -> {"resource_path", "resource_type"}
      [] OTHER -> {}

\* The parameters whose value is a node path, a properties record or a list.
PathParams ==
    {"node_path", "animation_player_path", "target_node_path", "properties",
     "keyframes"}

\* A required parameter of the invocation of p is missing or empty.
MissesRequired(p) ==
    \E k \in RequiredParams(Operation(p)) :
        \/ k \notin DOMAIN Params(p)
        \/ Params(p)[k] = (IF k \in PathParams THEN <<>> ELSE "")

\* C13: an invocation in which a required parameter is missing or empty
\* returns success = false before any load, save or write happens.
C13_RequiredParams ==
    \A p \in Procs :
        (pc[p] \notin {"idle", "init"} /\ args[p].argc >= 1
         /\ (args[p].argc = 2 => args[p].payload.json = "object")
         /\ Operation(p) \in OperationNames
         /\ MissesRequired(p)) =>
            /\ io[p] = NoIO
            /\ Returned(p) => ~result[p].success

\* The invocation of p was started without arguments.
NoOperation(p) == pc[p] # "idle" /\ args[p].argc < 1

\* The second argument of the invocation of p is not valid JSON.
ParseFails(p) ==
    pc[p] # "idle" /\ args[p].argc = 2 /\ args[p].payload.json = "invalid"

\* C14: an invocation with no operation argument emits the framed failure
\* "No operation specified", one whose second argument is not valid JSON
\* emits a framed "Failed to parse parameters" failure; in both the
\* dispatcher is never entered and no document I/O happens.
C14_ArgumentFailures ==
    \A p \in Procs :
        /\ (NoOperation(p) \/ ParseFails(p)) =>
            /\ pc[p] \in {"init", "done"}
            /\ result[p] = NoResult /\ steps[p] = <<>>
            /\ io[p] = NoIO /\ fs = fs0[p]
        /\ (NoOperation(p) /\ pc[p] = "done") =>
            stdout[p] = <<[success |-> FALSE, error |-> <<"No operation specified">>]>>
        /\ (ParseFails(p) /\ pc[p] = "done") =>
            /\ Len(stdout[p]) = 1
            /\ ~stdout[p][1].success
            /\ stdout[p][1].error[1] = "Failed to parse parameters: "

C14_Witness ==
    \E p \in Procs :
        /\ ParseFails(p) /\ pc[p] = "done"
        /\ stdout[p] # <<>>
        /\ fs[ScenePath] # NoFile

\* C15: whenever the engine process emits a framed result with
\* success = false (the no-operation and parameter-parse failures included)
\* it exits with code 0; a non-zero code never accompanies a framed result.
C15_FramedResultExitsZero ==
    \A p \in Procs :
        (pc[p] = "done" /\ stdout[p] # <<>>) => exit_code[p] = 0

\* C15 as the code has it: the result of the dispatcher, successful or not,
\* is emitted with exit code 0; the no-operation and parameter-parse
\* failures are emitted with exit code 1; a successful result never comes
\* with a non-zero code.
C15_ExitCodes ==
    \A p \in Procs :
        pc[p] = "done" =>
            /\ Len(stdout[p]) = 1
            /\ result[p] # NoResult =>
                  (exit_code[p] = 0 /\ stdout[p] = <<result[p]>>)
            /\ result[p] = NoResult =>
                  /\ exit_code[p] = 1
                  /\ ~stdout[p][1].success
                  /\ NoOperation(p) \/ ParseFails(p)
            /\ exit_code[p] # 0 => ~stdout[p][1].success

C15_Witness ==
    \E p \in Procs :
        /\ pc[p] = "done" /\ result[p] # NoResult
        /\ ~result[p].success
        /\ exit_code[p] = 0
        /\ HasStep(p, "load")

\* The call c of execute has been settled by its close handler alone.
ClosedExecute(c) ==
    /\ host_pc[c] = "closed" /\ method[c] = "execute"
    /\ resolve_calls[c] = 1

\* The places of the marker pairs of a text: an opening marker and the
\* first closing marker after it.
MarkerPairs(text) ==
    {ij \in (1..Len(text)) \X (1..Len(text)) :
        /\ text[ij[1]] = OpenMarker /\ text[ij[2]] = CloseMarker
        /\ ij[1] < ij[2]
        /\ \A k \in (ij[1] + 1)..(ij[2] - 1) : text[k] # CloseMarker}

Between(text, ij) == Trim(SubSeq(text, ij[1] + 1, ij[2] - 1))

\* The marker pairs of a text that hold a JSON result record.
FramedResults(text) ==
    {ij \in MarkerPairs(text) :
        /\ Len(Between(text, ij)) = 1
        /\ Between(text, ij)[1].t = "json"
        /\ Between(text, ij)[1].v # JsonNull}

\* C16: when the subprocess's standard output contains the opening marker,
\* a JSON result record and the matching closing marker, execute returns the
\* result decoded from the text between that pair, whatever diagnostic text
\* comes before the opening marker or after the closing marker.
C16_DecodesFramedResult ==
    \A c \in Calls :
        ClosedExecute(c) =>
            \A ij \in FramedResults(Flatten(written[c].out)) :
                LET record == Between(Flatten(written[c].out), ij)[1].v
                IN  /\ promise[c].value.success = Coalesce(record, "success", TRUE)
                    /\ promise[c].value.output =
                          Coalesce(record, "output",
                                   Coalesce(record, "message", <<Json(record)>>))
                    /\ ("error" \in DOMAIN promise[c].value)
                          <=> ("error" \in DOMAIN record)

\* Standard output holds no marker pair, or what the pair holds is not JSON.
NotDecodable(text) ==
    \/ ~ResultMatch(text).matched
    \/ ~JsonParse(Trim(ResultMatch(text).group)).ok

\* C17: when standard output contains no marker pair, or the text between
\* the markers is not decodable JSON, execute returns success = (exit code
\* is 0), output = trimmed standard output, error = trimmed standard error.
C17_Fallback ==
    \A c \in Calls :
        (ClosedExecute(c) /\ NotDecodable(Flatten(written[c].out))) =>
            promise[c].value =
                [success |-> proc[c].code = ExitCode(0),
                 output |-> Trim(Flatten(written[c].out)),
                 error |-> Trim(Flatten(written[c].err))]

\* C17 as the code has it: error is the trimmed standard error when that is
\* not empty and is absent otherwise.
C17_FallbackErrorOrAbsent ==
    \A c \in Calls :
        (ClosedExecute(c) /\ NotDecodable(Flatten(written[c].out))) =>
            /\ promise[c].state = "resolved"
            /\ promise[c].value.success = (proc[c].code = ExitCode(0))
            /\ promise[c].value.output = Trim(Flatten(written[c].out))
            /\ IF Trim(Flatten(written[c].err)) = <<>>
               THEN "error" \notin DOMAIN promise[c].value
               ELSE promise[c].value.error = Trim(Flatten(written[c].err))

C17_Witness ==
    \E c \in Calls :
        /\ ClosedExecute(c) /\ NotDecodable(Flatten(written[c].out))
        /\ proc[c].code = ExitCode(1)
        /\ written[c].out # <<>> /\ written[c].err # <<>>
        /\ ~promise[c].value.success

\* C18: execute and executeRaw never reject: whatever the process does the
\* promise resolves with a result {success, output, error?}, and a spawn
\* failure resolves with success = false and the spawn error text.
C18_NeverRejects ==
    \A c \in Calls :
        /\ promise[c].state # "rejected"
        /\ host_pc[c] \in {"closed", "thrown"} =>
              /\ promise[c].state = "resolved"
              /\ {"success", "output"} \subseteq DOMAIN promise[c].value
              /\ DOMAIN promise[c].value \subseteq {"success", "output", "error"}
        /\ (host_pc[c] = "closed" /\ resolve_calls[c] = 2) =>
              /\ ~promise[c].value.success
              /\ promise[c].value.error = SpawnError

\* C19: every result of execute with success = false carries a populated
\* error string; an abnormal exit with no framed result is a failure
\* carrying the captured standard-error text.
C19_FailureCarriesError ==
    \A c \in Calls :
        (method[c] = "execute" /\ promise[c].state = "resolved"
         /\ ~promise[c].value.success) =>
            /\ "error" \in DOMAIN promise[c].value
            /\ promise[c].value.error # <<>>

\* The calls of which the call of spawn has been made.
PastSpawn == {c \in Calls : host_pc[c] \notin {"idle", "spawn"}}

\* C20: each call spawns exactly one subprocess and no subprocess is shared
\* between calls: with calls running concurrently the number of processes
\* spawned equals the number of calls, and what a call has accumulated, and
\* the result it settles with, come from its own process alone.
C20_OneProcessPerCall ==
    /\ Len(spawned) = Cardinality(PastSpawn)
    /\ \A c \in PastSpawn : Cardinality({i \in 1..Len(spawned) : spawned[i] = c}) = 1
    /\ \A c \in Calls :
        /\ host_stdout[c] = written[c].out
        /\ host_stderr[c] = written[c].err
        /\ (host_pc[c] = "closed" /\ resolve_calls[c] = 1) =>
              promise[c].value =
                  IF method[c] = "execute"
                  THEN OnClose(Flatten(written[c].out), Flatten(written[c].err),
                               proc[c].code)
                  ELSE OnCloseRaw(Flatten(written[c].out), Flatten(written[c].err),
                                  proc[c].code)

C20_Witness ==
    \E c, d \in Calls :
        /\ c # d
        /\ host_pc[c] = "running" /\ host_pc[d] = "closed"
        /\ host_stdout[c] # <<>> /\ host_stdout[d] # <<>>
        /\ host_stdout[c] # host_stdout[d]
        /\ proc[c].out # <<>>
        /\ spawned = <<c, d>>

\* C21: execute settles only when its subprocess emits close or a spawn
\* error: while the process runs the promise stays pending whatever data
\* arrives, the result made at close is decoded from all the output the
\* process wrote, and a call whose process has closed is resolved.
C21_SettlesAtClose ==
    \A c \in Calls :
        /\ (host_pc[c] \in {"spawn", "error"}
            \/ (host_pc[c] = "running" /\ resolve_calls[c] = 0)) =>
              promise[c] = Pending
        /\ promise[c].state = "resolved" => resolve_calls[c] >= 1
        /\ host_pc[c] = "closed" =>
              /\ promise[c].state = "resolved"
              /\ proc[c].out = <<>> /\ proc[c].err = <<>>
              /\ (resolve_calls[c] = 1 /\ method[c] = "execute"
                  /\ ~ResultMatch(Flatten(written[c].out)).matched) =>
                    promise[c].value.output = Trim(Flatten(written[c].out))

C21_Witness ==
    \E c \in Calls :
        /\ host_pc[c] = "running" /\ method[c] = "execute"
        /\ Len(host_stdout[c]) = 2 /\ host_stderr[c] = <<>>
        /\ proc[c].out = <<>> /\ proc[c].err = <<>>
        /\ promise[c] = Pending

\* C22: launchEditor and runProject do not wait for the launched process:
\* they report success at once upon a successful spawn, the result does not
\* depend on what the process does afterwards, and success is reported only
\* when the spawn succeeded.
C22_LaunchReportsSpawn ==
    \A c \in Calls :
        /\ host_pc[c] \in {"launched", "exited"} =>
              promise[c] = [state |-> "resolved", value |-> Launched(method[c])]
        /\ (promise[c].state = "resolved" /\ promise[c].value.success) =>
              host_pc[c] \in {"launched", "exited"}

\* ---- concurrent processes
ConcDone == \A p \in AllProcs : pc[p] = "done"

PathOf(p) == Params(p).scene_path

Succeeded(p) == Has(result[p], "success") /\ result[p].success

\* The scene states a successful run of request a leaves of doc.
Edits(a, doc) ==
    IF doc = <<>> THEN {}
    ELSE LET op == a.operation
             params == a.payload.data
             l == LocateTarget(op, doc, params)
             m == MutateTree(op, doc, l.node, params)
         IN  IF l.returned THEN {}
             ELSE IF m.returned THEN {}
             ELSE {SceneStateOf(m.doc)}

\* The documents that hold the edit of a, made on doc or on doc as b edited it.
HoldingEditOf(a, b, doc) ==
    Edits(a, doc) \cup UNION {Edits(a, d) : d \in Edits(b, doc)}

\* C23: when two mutating operations have run concurrently on the same scene
\* path and both reported success, the document on disk holds the edit of at
\* least one of them.
C23_OneEditSurvives ==
    (ConcDone /\ PathOf(1) = PathOf(2) /\ Succeeded(1) /\ Succeeded(2)) =>
        \E d \in HoldingEditOf(args[1], args[2], ConcDoc)
                  \cup HoldingEditOf(args[2], args[1], ConcDoc) :
            fs[PathOf(1)] = SceneFile(d)

\* C23: the lost update.  Both operations reported success and the document
\* holds the edit of one of them only: it is what that one alone makes of
\* the initial document, and not what the two make one after the other.
C23_LostUpdate ==
    /\ ConcDone /\ PathOf(1) = PathOf(2) /\ Succeeded(1) /\ Succeeded(2)
    /\ \E p \in AllProcs :
          LET q == CHOOSE q \in AllProcs : q # p
          IN  /\ fs[PathOf(p)] \in {SceneFile(d) : d \in Edits(args[p], ConcDoc)}
              /\ fs[PathOf(p)] \notin
                    {SceneFile(d) : d \in UNION {Edits(args[p], e) :
                                                    e \in Edits(args[q], ConcDoc)}}
              /\ fs[PathOf(p)] \notin
                    {SceneFile(d) : d \in UNION {Edits(args[q], e) :
                                                    e \in Edits(args[p], ConcDoc)}}

\* What a run of request a alone on a scene file holding doc can end in:
\* its result and the file afterwards.
SeqOutcomes(a, doc) ==
    LET op == a.operation
        params == a.payload.data
        l == LocateTarget(op, doc, params)
        m == MutateTree(op, doc, l.node, params)
        kept(res) == [result |-> res, file |-> SceneFile(doc)]
    IN  IF l.returned THEN {kept(l.result)}
        ELSE IF m.returned THEN {kept(m.result)}
        ELSE {kept(SaveFailure(op, "<error code>"))}
             \cup {[result |-> Success(op, params), file |-> SceneFile(state)] :
                      state \in {SceneStateOf(m.doc), <<>>}}

\* C24: an operation whose scene path no other process works on ends as it
\* does when run alone, whatever the other process does meanwhile: its
\* result and the final content of its document are those of a run on the
\* initial document.
C24_DistinctPathsIndependent ==
    \A p \in AllProcs :
        LET q == CHOOSE q \in AllProcs : q # p
        IN  (pc[p] = "done" /\ (pc[q] = "idle" \/ PathOf(q) # PathOf(p))) =>
                [result |-> result[p], file |-> fs[PathOf(p)]]
                    \in SeqOutcomes(args[p], ConcDoc)

\* C24: two operations on distinct paths that overlapped in time (each was
\* started before the other saved) have both succeeded and changed their files.
C24_Witness ==
    /\ ConcDone /\ PathOf(1) # PathOf(2) /\ Succeeded(1) /\ Succeeded(2)
    /\ \A p \in AllProcs :
          /\ fs0[p] = [f \in Paths |-> IF f \in ConcPaths THEN SceneFile(ConcDoc)
                                        ELSE NoFile]
          /\ fs[PathOf(p)] \notin {SceneFile(ConcDoc), SceneFile(<<>>)}

\* ---- round trip
\* C25: read_scene after a successful create_scene of the same scene_path
\* returns a tree whose root has the requested name and type and no
\* children.
C25_RoundTrip ==
    (pc[2] = "done" /\ Succeeded(2)) =>
        /\ result[2].tree.name = DictGet(Params(1), "root_name", "Root")
        /\ result[2].tree.type = DictGet(Params(1), "root_type", "Node2D")
        /\ "children" \notin DOMAIN result[2].tree

\* ---- path resolution
\* The operations that resolve a target path, and the path each is given.
LocatingOps ==
    {"add_node", "remove_node", "modify_node", "attach_script", "create_animation"}

TargetPath(p) ==
    IF Operation(p) = "add_node" THEN DictGet(Params(p), "parent_path", Dot)
    ELSE IF Operation(p) \in {"remove_node", "modify_node"}
    THEN DictGet(Params(p), "node_path", <<>>)
    ELSE DictGet(Params(p), "node_path", Dot)

NotFound(p) ==
    Err(<<IF Operation(p) = "add_node" THEN "Parent node not found: "
          ELSE "Node not found: ">> \o TargetPath(p))

LocatedNode(p, node) ==
    /\ ~StepFailed(p, "locate")
    /\ target[p] = node

\* C26: in add_node, remove_node, modify_node, attach_script and
\* create_animation alike the path "." resolves to the root of the loaded
\* document, the name of a child of the root resolves to that child, and a
\* name that no child of the root bears gives the not-found failure result
\* (the handler returns; the script does not stop).
C26_PathResolution ==
    \A p \in Procs :
        (pc[p] # "idle" /\ args[p].argc = 2 /\ Operation(p) \in LocatingOps
         /\ HasStep(p, "locate")) =>
            LET doc == packed_scene[p]
                path == TargetPath(p)
            IN  /\ pc[p] # "aborted"
                /\ path = Dot =>
                      IF Operation(p) = "remove_node"
                      THEN result[p] = Err(<<"Cannot remove root node">>)
                      ELSE LocatedNode(p, 1)
                /\ (path # Dot /\ Len(path) = 1 /\ ChildNamed(doc, 1, path[1]) # 0) =>
                      LocatedNode(p, ChildNamed(doc, 1, path[1]))
                /\ (path # Dot /\ Len(path) = 1 /\ ChildNamed(doc, 1, path[1]) = 0) =>
                      /\ StepFailed(p, "locate")
                      /\ result[p] = NotFound(p)

\* C26: some operation has resolved the name of a child to that child, and
\* the child is not the root.
C26_Witness ==
    \E p \in Procs :
        /\ pc[p] # "idle" /\ args[p].argc = 2 /\ Operation(p) \in LocatingOps
        /\ HasStep(p, "locate")
        /\ TargetPath(p) = <<"A">>
        /\ LocatedNode(p, 2)

\* ---- list_nodes
Roots(doc) == {i \in 1..Len(doc) : doc[i].parent = 0}

\* The entries of list_nodes are those of doc: one per node, in pre-order,
\* the first being the root with path ".", and no two with the same path.
ListsPreOrder(nodes, doc) ==
    LET order == PreOrderFrom(doc, 1)
    IN  /\ Len(nodes) = Len(doc)
        /\ Len(order) = Len(doc)
        /\ nodes[1].path = Dot
        /\ order[1] = 1
        /\ \A k \in 1..Len(nodes) :
              /\ nodes[k].name = doc[order[k]].name
              /\ nodes[k].type = doc[order[k]].type
              /\ k > 1 => /\ \E j \in 1..(k - 1) : order[j] = doc[order[k]].parent
                          /\ nodes[k].path = GetPathTo(doc, order[k])
        /\ \A j, k \in 1..Len(order) :
              (j < k /\ doc[order[j]].parent = doc[order[k]].parent) => order[j] < order[k]
        /\ \A j, k \in 1..Len(nodes) : j # k => nodes[j].path # nodes[k].path

\* C27: a successful list_nodes returns one entry per node of the document
\* in pre-order, the root first with path ".", all paths distinct.
C27_ListNodesPreOrder ==
    \A p \in Procs :
        (Returned(p) /\ args[p].argc = 2 /\ Operation(p) = "list_nodes"
         /\ Succeeded(p)) =>
            ListsPreOrder(result[p].nodes, packed_scene[p])

\* C27: a successful list_nodes returns one entry per node of the document
\* in pre-order, the root first with path ".", all paths distinct; and after
\* a successful add_node or remove_node the document has exactly one root.
C27_ListNodesAndOneRoot ==
    /\ C27_ListNodesPreOrder
    /\ \A p \in Procs :
        (Returned(p) /\ args[p].argc = 2
         /\ Operation(p) \in {"add_node", "remove_node"} /\ Succeeded(p)) =>
            /\ fs[Params(p).scene_path].file = "scene"
            /\ Cardinality(Roots(fs[Params(p).scene_path].state)) = 1

\* ---- value converter
\* What a component of a native value of the type is when the record does
\* not give it.
DefaultComponent(type) == IF type = "Color" THEN 1 ELSE 0

IsTagged(v) ==
    /\ v.k = "dict"
    /\ "_type" \in DOMAIN v.d
    /\ \E type \in ConvTypes : v.d["_type"] = type

\* C28: a record tagged Vector2, Vector3, Color or Rect2 is converted to the
\* native value of that type, each component being the one given, or 0
\* when missing from a vector or rectangle and 1 when missing from a colour;
\* every other value comes back unchanged.
C28_Converter ==
    conv_pc >= 1 =>
        IF IsTagged(value_in)
        THEN LET type == value_in.d["_type"]
             IN  /\ value_out.k = type
                 /\ DOMAIN value_out = {"k"} \cup Components(type)
                 /\ \A c \in Components(type) :
                       value_out[c] = IF c \in DOMAIN value_in.d THEN value_in.d[c]
                                      ELSE DefaultComponent(type)
        ELSE value_out = value_in

\* C28: the two conversions the claim names have happened: red without an
\* alpha channel became opaque red, and a 2D vector without y became (5, 0).
C28_Witness ==
    /\ conv_pc >= 1
    /\ \/ /\ value_in = Dict([_type |-> "Color", r |-> 1, g |-> 0, b |-> 0])
          /\ value_out = [k |-> "Color", r |-> 1, g |-> 0, b |-> 0, a |-> 1]
       \/ /\ value_in = Dict([_type |-> "Vector2", x |-> 5])
          /\ value_out = [k |-> "Vector2", x |-> 5, y |-> 0]

\* C29: converting what the converter returned gives the same value again,
\* and a native value handed to the converter comes back unchanged.
C29_Idempotent ==
    /\ conv_pc = 2 => value_out2 = value_out
    /\ (conv_pc >= 1 /\ value_in \in Natives) => value_out = value_in

\* C29: a tagged record has been converted twice, the first conversion
\* having changed it.
C29_Witness ==
    /\ conv_pc = 2
    /\ IsTagged(value_in)
    /\ value_out # value_in
    /\ value_out2 = value_out

\* ---- type resolution
\* The name is neither in the curated table of node types nor a node class.
NoNodeType(type_name) ==
    type_name \notin CuratedNodeTypes /\ ~(ClassExists(type_name) /\ IsNodeClass(type_name))

NoResourceType(type_name) ==
    type_name \notin CuratedResourceTypes
    /\ ~(ClassExists(type_name) /\ IsResourceClass(type_name))

C31_UnknownRootType ==
    \A p \in Procs :
        (Returned(p) /\ args[p].argc = 2 /\ Operation(p) = "create_scene"
         /\ HasStep(p, "create")
         /\ NoNodeType(DictGet(Params(p), "root_type", "Node2D"))) =>
            /\ result[p] = Err(<<"Unknown node type: ",
                                 DictGet(Params(p), "root_type", "Node2D")>>)
            /\ io[p].mkdirs = 0
            /\ io[p].saves = 0
            /\ io[p].writes = 0
            /\ fs = fs0[p]

\* C31: create_scene with an unresolvable root type has failed on a
\* scene_path that already holds a scene, and the scene is still there.
C31_Witness ==
    \E p \in Procs :
        /\ Returned(p) /\ args[p].argc = 2 /\ Operation(p) = "create_scene"
        /\ HasStep(p, "create")
        /\ NoNodeType(DictGet(Params(p), "root_type", "Node2D"))
        /\ ~result[p].success
        /\ fs0[p][Params(p).scene_path].file = "scene"
        /\ fs[Params(p).scene_path] = fs0[p][Params(p).scene_path]

\* ---- create_animation
\* The AnimationPlayer children of node i.
PlayersOf(doc, i) ==
    {j \in 1..Len(doc) : doc[j].parent = i /\ doc[j].type = "AnimationPlayer"}

\* The animations of the default library of a player, none when it has no
\* such library.
AnimsOf(node) == IF node.lib.has THEN node.lib.anims ELSE <<>>

\* What a successful create_animation of process p made of the document it
\* loaded: the target has the players it had, or one when it had none; the
\* first of them holds the named animation with the requested length and
\* loop mode and no track; its other animations are as they were.
AnimationCreated(p, before, after) ==
    LET t0 == GetNodeOrNull(before, TargetPath(p))
        t1 == GetNodeOrNull(after, TargetPath(p))
        name == DictGet(Params(p), "animation_name", "default")
        old == FindAnimationPlayer(before, t0)
        new == FindAnimationPlayer(after, t1)
        was == IF old = 0 THEN <<>> ELSE AnimsOf(before[old])
    IN  /\ after # <<>>
        /\ t1 # 0
        /\ Cardinality(PlayersOf(after, t1)) =
              (IF old = 0 THEN 1 ELSE Cardinality(PlayersOf(before, t0)))
        /\ new # 0
        /\ DOMAIN AnimsOf(after[new]) = DOMAIN was \cup {name}
        /\ AnimsOf(after[new])[name] =
              [length |-> DictGet(Params(p), "duration", 1),
               loop_mode |-> IF DictGet(Params(p), "loop", FALSE)
                             THEN "LOOP_LINEAR" ELSE "LOOP_NONE",
               tracks |-> <<>>]
        /\ \A n \in DOMAIN was \ {name} : AnimsOf(after[new])[n] = was[n]

\* C32: after a successful create_animation the saved document has, under
\* the target node, the AnimationPlayers it had before, or exactly one when
\* it had none; the default library of the first holds the named animation
\* (inserted, or replaced) with the requested length and loop mode, and its
\* animations under other names are unchanged.
C32_CreateAnimation ==
    \A p \in Procs :
        (Returned(p) /\ args[p].argc = 2 /\ Operation(p) = "create_animation"
         /\ Succeeded(p)) =>
            /\ fs[Params(p).scene_path].file = "scene"
            /\ AnimationCreated(p, packed_scene[p], fs[Params(p).scene_path].state)

\* ---- add_animation_track
\* The keys the keyframes would make if each were kept, in the order given.
KeysAsGiven(keyframes) ==
    [i \in 1..Len(keyframes) |->
        [time |-> DictGet(keyframes[i], "time", 0),
         value |-> ConvertPropertyValue(DictGet(keyframes[i], "value", Null))]]

\* The tracks of the named animation of the player at path, none when the
\* document has no such player or animation.
TracksAt(doc, path, name) ==
    LET node == GetNodeOrNull(doc, path)
    IN  IF doc = <<>> \/ node = 0 THEN <<>>
        ELSE IF name \notin DOMAIN AnimsOf(doc[node]) THEN <<>>
        ELSE AnimsOf(doc[node])[name].tracks

\* One track was appended to the tracks before: its path is the target path,
\* ":" and the property, and its keys are the keyframes as given.
TrackAppended(p, before, after) ==
    LET path == Params(p).animation_player_path
        name == DictGet(Params(p), "animation_name", "default")
        was == TracksAt(before, path, name)
        now == TracksAt(after, path, name)
    IN  /\ Len(now) = Len(was) + 1
        /\ SubSeq(now, 1, Len(was)) = was
        /\ now[Len(now)].path = DictGet(Params(p), "target_node_path", <<>>)
                                 \o <<":", DictGet(Params(p), "property", "")>>
        /\ now[Len(now)].keys = KeysAsGiven(DictGet(Params(p), "keyframes", <<>>))

\* The player the request names is in the document and has no animation of
\* the requested name.
AnimationMissing(p, doc) ==
    LET node == GetNodeOrNull(doc, Params(p).animation_player_path)
    IN  /\ node # 0
        /\ doc[node].type = "AnimationPlayer"
        /\ DictGet(Params(p), "animation_name", "default") \notin DOMAIN AnimsOf(doc[node])

\* C33: add_animation_track naming an animation the player does not have
\* fails with "Animation not found" and saves nothing.
C33_AnimationNotFound ==
    \A p \in Procs :
        (Returned(p) /\ args[p].argc = 2 /\ Operation(p) = "add_animation_track"
         /\ HasStep(p, "locate") /\ AnimationMissing(p, packed_scene[p])) =>
            /\ result[p] = Err(<<"Animation not found: ",
                                 DictGet(Params(p), "animation_name", "default")>>)
            /\ io[p].saves = 0
            /\ fs = fs0[p]

\* C33: add_animation_track naming an animation the player does not have
\* fails with "Animation not found" and saves nothing; a successful one
\* leaves the animation in the saved document with its earlier tracks
\* unchanged and one more track, whose path is "<target_node_path>:<property>"
\* and whose keys are the given keyframes, one key each, in the order given.
C33_AddAnimationTrack ==
    /\ C33_AnimationNotFound
    /\ \A p \in Procs :
        (Returned(p) /\ args[p].argc = 2 /\ Operation(p) = "add_animation_track"
         /\ Succeeded(p)) =>
            /\ fs[Params(p).scene_path].file = "scene"
            /\ TrackAppended(p, packed_scene[p], fs[Params(p).scene_path].state)

\* ---- pack before save
\* C34: in every operation that saves a scene a failed pack is not followed
\* by a save, and the operation returns a failure result.
C34_NoSaveAfterFailedPack ==
    \A p \in Procs :
        StepFailed(p, "pack") =>
            /\ io[p].saves = 0
            /\ Returned(p) => ~Succeeded(p)

\* ---- tagged values
\* Each tagged value among the properties that the node's class has a
\* property of the native type for is stored on the node as that native value.
TaggedStored(node, properties) ==
    \A i \in 1..Len(properties) :
        LET prop_name == properties[i][1]
            value == properties[i][2]
        IN  (IsTagged(value)
             /\ PropertyType(node.type, prop_name) = ValueType(ConvertPropertyValue(value))) =>
                /\ prop_name \in DOMAIN node.props
                /\ node.props[prop_name] = ConvertPropertyValue(value)

\* The handler of p has changed its tree.
Mutated(p) ==
    /\ pc[p] # "idle" /\ args[p].argc = 2
    /\ HasStep(p, "mutate") /\ ~StepFailed(p, "mutate")

\* C35: modify_node stores a tagged property value as the native value.
C35_ModifyNodeConverts ==
    \A p \in Procs :
        (Mutated(p) /\ Operation(p) = "modify_node") =>
            TaggedStored(scene_root[p][target[p]], DictGet(Params(p), "properties", <<>>))

\* C35: add_animation_track stores no keyframe value as a tagged record.
C35_AddAnimationTrackConverts ==
    \A p \in Procs :
        (Mutated(p) /\ Operation(p) = "add_animation_track") =>
            LET tracks == TracksAt(scene_root[p], Params(p).animation_player_path,
                                   DictGet(Params(p), "animation_name", "default"))
            IN  \A i \in 1..Len(tracks[Len(tracks)].keys) :
                    ~IsTagged(tracks[Len(tracks)].keys[i].value)

\* C35: a property given as a tagged record is stored as the native value by
\* add_node as by modify_node, and add_animation_track stores keyframe
\* values converted.
C35_TaggedConverted ==
    /\ C35_ModifyNodeConverts
    /\ C35_AddAnimationTrackConverts
    /\ \A p \in Procs :
        (Mutated(p) /\ Operation(p) = "add_node") =>
            TaggedStored(scene_root[p][Len(scene_root[p])],
                         DictGet(Params(p), "properties", <<>>))

\* ---------------------------------------------------------------- C36
\* The record the dispatcher of call c emitted: the document in the bytes
\* the process wrote.
Emitted(c) ==
    LET bytes == Flatten(written[c].out)
        at == CHOOSE i \in 1..Len(bytes) : "v" \in DOMAIN bytes[i]
    IN  bytes[at].v

\* What execute is to return for record r.
Decoded(r) ==
    ExecutionResult(r.success,
                    IF "message" \in DOMAIN r THEN r.message ELSE JsonStringify(r),
                    IF "error" \in DOMAIN r THEN r.error ELSE Undefined)

\* C36: for every record R the dispatcher emits, markers inside its strings
\* included, execute resolves with success = R.success, error = R.error and
\* output = R.message when R has a message, otherwise the JSON text of R.
C36_RoundTrip ==
    \A c \in Calls :
        ClosedExecute(c) => promise[c].value = Decoded(Emitted(c))

\* C36 for the records whose bytes reached the host in chunks that end
\* between characters.
WholeCharacters(c) ==
    \A i \in 1..Len(written[c].out) :
        \A k \in 1..Len(written[c].out[i]) :
            written[c].out[i][k].t \notin {"bytes_head", "bytes_tail"}

C36_RoundTripWholeCharacters ==
    \A c \in Calls :
        ClosedExecute(c) /\ WholeCharacters(c)
            => promise[c].value = Decoded(Emitted(c))

\* A record with the markers inside a string has been decoded.
C36_MarkerInside ==
    \E c \in Calls :
        /\ ClosedExecute(c)
        /\ MarkersIn(Emitted(c)) # <<>>
        /\ promise[c].value = Decoded(Emitted(c))

\* ---------------------------------------------------------------- C37
\* What the close handler of call c builds from what the host has
\* received, and what its error handler builds.
CloseResult(c) ==
    IF method[c] = "execute"
    THEN OnClose(Flatten(host_stdout[c]), Flatten(host_stderr[c]), proc[c].code)
    ELSE OnCloseRaw(Flatten(host_stdout[c]), Flatten(host_stderr[c]), proc[c].code)

ErrorResult == OnError(SpawnError)

\* The events of call c so far: error then close, close then error.
ErrorThenClose(c) == host_pc[c] = "closed" /\ resolve_calls[c] = 2
CloseThenError(c) == host_pc[c] = "errored"

\* C37: a call whose subprocess emits both an error event and a close
\* event, in either order, is settled once: after the first of the two
\* events the promise holds the result that event built, and after the
\* second it still holds that result.
C37_FirstEventSettles ==
    \A c \in Calls :
        /\ (host_pc[c] = "running" /\ resolve_calls[c] = 1)
              => promise[c] = [state |-> "resolved", value |-> ErrorResult]
        /\ ErrorThenClose(c)
              => promise[c] = [state |-> "resolved", value |-> ErrorResult]
        /\ host_pc[c] = "error_due"
              => promise[c] = [state |-> "resolved", value |-> CloseResult(c)]
        /\ CloseThenError(c)
              => /\ promise[c] = [state |-> "resolved", value |-> CloseResult(c)]
                 /\ resolve_calls[c] = 2

\* Both orders have happened, each on a call of execute.
C37_Witness ==
    \E c, d \in Calls :
        /\ method[c] = "execute" /\ method[d] = "execute"
        /\ ErrorThenClose(c) /\ CloseThenError(d)
        /\ promise[c].value # promise[d].value

\* C37, the later event: a resolved promise never changes.
C37_LaterEventChangesNothing ==
    [][\A c \in Calls : promise[c].state = "resolved" => promise'[c] = promise[c]]_vars

\* ---------------------------------------------------------------- C38
\* The node add_node of process p added: add_child puts it after the nodes
\* that were loaded.
AddedNode(p) == Len(packed_scene[p]) + 1

\* The document at the scene path of process p.
SavedDoc(p) == IF fs[PathOf(p)].file = "scene" THEN fs[PathOf(p)].state ELSE <<>>

AddNodeSucceeded(p) ==
    /\ Returned(p) /\ args[p].argc = 2 /\ Operation(p) = "add_node"
    /\ Succeeded(p)

\* C38: the node_path a successful add_node returns is the path under which
\* list_nodes of the saved document lists the node that was added, also
\* when the parent already had a child of that name.
C38_NodePathFindsAddedNode ==
    \A p \in AllProcs :
        AddNodeSucceeded(p) =>
            /\ AddedNode(p) <= Len(SavedDoc(p))
            /\ GetPathTo(SavedDoc(p), AddedNode(p)) = result[p].node_path

\* The requested name is one a node can have and no child of the parent has it.
FreshName(p) ==
    LET doc == packed_scene[p]
        parent_node == GetNodeOrNull(doc, DictGet(Params(p), "parent_path", Dot))
        node_name == DictGet(Params(p), "node_name", "NewNode")
    IN  /\ ChildNamed(doc, parent_node, node_name) = 0
        /\ ValidateNodeName(node_name) = node_name

\* C38 for a name that is free, in a run whose pack succeeded and that no
\* other process overlapped.
C38_FreshNameFound ==
    \A p \in AllProcs :
        (AddNodeSucceeded(p) /\ FreshName(p) /\ ~StepFailed(p, "pack")
         /\ \A q \in AllProcs \ {p} : pc[q] = "idle") =>
            /\ AddedNode(p) <= Len(SavedDoc(p))
            /\ GetPathTo(SavedDoc(p), AddedNode(p)) = result[p].node_path

\* C38, the name taken: the added node is saved under a generated name and
\* the returned path is that of the sibling that had the name.
C38_TakenNameFindsSibling ==
    \A p \in AllProcs :
        (AddNodeSucceeded(p) /\ ~FreshName(p) /\ ~StepFailed(p, "pack")
         /\ \A q \in AllProcs \ {p} : pc[q] = "idle") =>
            /\ GetPathTo(SavedDoc(p), AddedNode(p)) # result[p].node_path
            /\ GetNodeOrNull(SavedDoc(p), result[p].node_path)
                    \in 1..Len(packed_scene[p])

\* ---------------------------------------------------------------- C39
\* after is before without the node target and the nodes below it: each
\* other node is there, in the same order, with its name, type and parent,
\* and nothing else is.
SubtreeRemoved(before, after, node) ==
    LET kept == {j \in 1..Len(before) : ~IsInSubtree(before, node, j)}
        place(j) == Cardinality({k \in kept : k <= j})
    IN  /\ Len(after) = Cardinality(kept)
        /\ \A j \in kept :
              /\ after[place(j)].name = before[j].name
              /\ after[place(j)].type = before[j].type
              /\ after[place(j)].parent =
                    IF before[j].parent = 0 THEN 0 ELSE place(before[j].parent)

RemoveNodeSucceeded(p) ==
    /\ Returned(p) /\ args[p].argc = 2 /\ Operation(p) = "remove_node"
    /\ Succeeded(p)

\* C39: after a successful remove_node the saved document holds every node
\* that was neither the target nor below it, with name, type, parent and
\* sibling order unchanged, and none of the removed ones.
C39_RemovesExactlySubtree ==
    \A p \in AllProcs :
        RemoveNodeSucceeded(p) =>
            SubtreeRemoved(packed_scene[p], SavedDoc(p),
                           GetNodeOrNull(packed_scene[p], Params(p).node_path))

\* C39 for the document that was packed and saved by a run whose pack
\* succeeded.
C39_RemovesExactlySubtreeWhenPacked ==
    \A p \in AllProcs :
        (RemoveNodeSucceeded(p) /\ ~StepFailed(p, "pack")) =>
            SubtreeRemoved(packed_scene[p], new_packed_scene[p],
                           GetNodeOrNull(packed_scene[p], Params(p).node_path))

====
